---------------------------- MODULE Spec2Model ----------------------------
(***************************************************************************)
(* Model of the schedule expert system: the rule base class, the four      *)
(* rules of src/expert_system/rules.py and the inference engine of         *)
(* src/expert_system/inference_engine.py.                                  *)
(*                                                                         *)
(* Units.  A datetime is the number of seconds since 1900-01-01 00:00:00   *)
(* (the date strptime gives a time-only string).  A gap in minutes, the    *)
(* float total_seconds() / 60 of a whole number s of seconds, is held as   *)
(* s, a count of 1/60 (SecondsPerMinute) of a minute: the division is      *)
(* correctly rounded, so the float is known from s, it is below a whole    *)
(* number n exactly when s < 60 * n, and int() of it is s / 60 cut toward  *)
(* 0.  Durations and thresholds, which the code holds as whole numbers,    *)
(* are whole numbers.  What the code computes from a gap in float          *)
(* arithmetic (an excess, a shortage, a weight, the total weight) is held  *)
(* as the binary float it is: see Float below.                             *)
(***************************************************************************)
EXTENDS Integers, Sequences, FiniteSets, TLC

VARIABLES
    graph,           \* the schedule graph handed to analyze_schedule
    rules,           \* InferenceEngine.rules: the four rule configurations
    general_config,  \* InferenceEngine.general_config
    pc,              \* position of analyze_schedule
    all_violations,  \* analyze_schedule's local all_violations
    result,          \* the ScheduleAnalysisResult returned (NoResult before)
    exception,       \* the exception that left analyze_schedule (None if none)
    call,            \* a pending call of a pure helper (function-level runs)
    ret,             \* what the pending call returned
    history          \* the results of the earlier analyze_schedule calls,
                     \* each with the graph it was computed on

vars == <<graph, rules, general_config, pc, all_violations, result, exception,
          call, ret, history>>

(***************************************************************************)
(* Bounds of the model.                                                    *)
(***************************************************************************)
MaxPerfs == 3          \* performance entries in a graph of one entity
MaxPerfsOfTwo == 2     \* performance entries in a graph of two entities, together
MaxCompetitors == 2    \* competitors in a graph
MaxJuries == 1         \* juries in a graph
MaxEntities == 2       \* competitors and juries in a graph, together
MaxMinutes == 8        \* largest value, in minutes, handed to _get_severity alone
MaxCalls == 2          \* analyze_schedule calls on one engine and graph

(***************************************************************************)
(* Program constants.                                                      *)
(***************************************************************************)
SecondsPerMinute == 60     \* total_seconds() / 60
ContinuityGap == 10        \* "if gap < 10" of both continuous-block rules

None == "None"

Severity == <<"critical", "medium", "low">>

RuleNames == <<"MaxContinuousDancing", "CostumeChangeTime",
               "MaxContinuousJudging", "MaxGapBetweenPerformances">>

\* The formats _ensure_datetime tries, in the order it tries them.
TimeFormats == <<"%H:%M:%S", "%H:%M", "%Y-%m-%d %H:%M:%S", "%Y-%m-%d %H:%M">>

(***************************************************************************)
(* Arithmetic helpers.                                                     *)
(***************************************************************************)
\* int(x / 60) for a value held in sixtieths: Python's int() rounds toward 0.
IntTrunc(value) ==
    IF value >= 0 THEN value \div SecondsPerMinute
                  ELSE -((-value) \div SecondsPerMinute)

(***************************************************************************)
(* Python floats (IEEE 754 binary64, round to nearest, ties to even).      *)
(* The float x is held as [sixtieths |-> k, dev |-> d] with                *)
(*     x = (k + d / 2^58) / 60,                                            *)
(* k the whole number of sixtieths x is next to and d how far it is off.   *)
(* The floats met here are 0 or of a size from 1/64 up to 2^15: they are   *)
(* multiples of 2^-58, so d is a whole number, and a small one.  The       *)
(* rounding works on remainders, never on the 53-bit mantissa itself.      *)
(***************************************************************************)
Float(k, d) == [sixtieths |-> k, dev |-> d]

\* float(n) of a whole number n.
float(n) == Float(n * SecondsPerMinute, 0)

\* (k + d / 2^58) / 60 >= 2^j.
AtLeastPow2(k, d, j) ==
    IF j >= 0 THEN k > 60 * 2^j \/ (k = 60 * 2^j /\ d >= 0)
    ELSE k * 2^(-j) > 60 \/ (k * 2^(-j) = 60 /\ d >= 0)

\* The binary exponent e of a positive value: 2^e <= value < 2^(e + 1).
Exponent(k, d) ==
    CHOOSE e \in (-6)..14 : AtLeastPow2(k, d, e) /\ ~AtLeastPow2(k, d, e + 1)

\* The float nearest to the positive value (k + d / 2^58) / 60, of binary
\* exponent e.  In units of 1 / (60 * 2^58) the value is k * 2^58 + d and
\* the spacing of the floats of exponent e is ulp = 60 * 2^(e + 6).  Rest is
\* the value modulo ulp (2^58 / 2^(e + 6) modulo 60 is one of 4, 8, 16, 32);
\* down is d less the rest, the float below; Mantissa is, modulo 2, the
\* mantissa of the float below, which decides a tie.
Rest(k, d, e) ==
    (2^(e + 6) * (((k % 60) * <<4, 8, 16, 32>>[((52 - e - 2) % 4) + 1]) % 60) + d)
        % (60 * 2^(e + 6))

Mantissa(k, down, e) ==
    (((k % 120) * <<8, 16, 32, 64>>[((52 - e - 3) % 4) + 1]
        + (down \div 2^(e + 6))) % 120) \div 60

RoundToNearestEven(k, down, rest, ulp, mantissa) ==
    IF 2 * rest < ulp THEN Float(k, down)
    ELSE IF 2 * rest > ulp THEN Float(k, down + ulp)
    ELSE IF mantissa = 0 THEN Float(k, down)
    ELSE Float(k, down + ulp)

RoundWithRest(k, d, e, rest) ==
    RoundToNearestEven(k, d - rest, rest, 60 * 2^(e + 6), Mantissa(k, d - rest, e))

RoundPositive(k, d) ==
    CHOOSE r \in { RoundWithRest(k, d, e, Rest(k, d, e)) : e \in {Exponent(k, d)} } :
        TRUE

\* The float nearest to sign * (k + d / 2^58) / 60, a positive value.
RoundSigned(sign, k, d) ==
    CHOOSE r \in { Float(sign * x.sixtieths, sign * x.dev) :
                     x \in {RoundPositive(k, d)} } : TRUE

\* The float nearest to (k + d / 2^58) / 60.
Rounded(k, d) ==
    IF k = 0 /\ d = 0 THEN Float(0, 0)
    ELSE IF k < 0 \/ (k = 0 /\ d < 0) THEN RoundSigned(-1, -k, -d)
    ELSE RoundSigned(1, k, d)

\* "seconds / 60", "x + y", "x - y" and "x * n" (n a whole number) on floats.
\* The operands are bound to their values first, so that each is evaluated
\* once however deep the expression it comes from.
truediv60(seconds) ==
    CHOOSE r \in { Rounded(s, 0) : s \in {seconds} } : TRUE
float_add(x, y) ==
    CHOOSE r \in { Rounded(a.sixtieths + b.sixtieths, a.dev + b.dev) :
                     a \in {x}, b \in {y} } : TRUE
float_sub(x, y) ==
    CHOOSE r \in { Rounded(a.sixtieths - b.sixtieths, a.dev - b.dev) :
                     a \in {x}, b \in {y} } : TRUE
float_mul(x, n) ==
    CHOOSE r \in { Rounded(a.sixtieths * m, a.dev * m) :
                     a \in {x}, m \in {n} } : TRUE

\* "x <= n" of a float and a whole number.
float_le(x, n) ==
    x.sixtieths < n * SecondsPerMinute
        \/ (x.sixtieths = n * SecondsPerMinute /\ x.dev <= 0)

RECURSIVE SumSeq(_)
SumSeq(s) == IF s = <<>> THEN 0 ELSE Head(s) + SumSeq(Tail(s))

RECURSIVE Concat(_)
Concat(ss) == IF ss = <<>> THEN <<>> ELSE Head(ss) \o Concat(Tail(ss))

(***************************************************************************)
(* Time values.  A time field of a performance is a datetime object, a     *)
(* string, or a value of another type.  A string is described by the one   *)
(* format it is written in ("unparseable" when it is in none) and the      *)
(* moment it spells.                                                       *)
(***************************************************************************)
DateTime(t) == [type |-> "datetime", fmt |-> "", t |-> t]
TimeStr(fmt, t) == [type |-> "str", fmt |-> fmt, t |-> t]
BadStr == [type |-> "str", fmt |-> "unparseable", t |-> 0]

HMS(h, m, s) == (h * 60 + m) * SecondsPerMinute + s

\* datetime.strptime(dt, fmt): succeeds only on a string written in fmt.
strptime(dt, fmt) ==
    IF dt.fmt = fmt THEN [exc |-> None, value |-> dt.t]
                    ELSE [exc |-> "ValueError", value |-> 0]

\* The loop "for fmt in [...]: try ... except ValueError: continue": the first
\* format that parses wins; ValueError when none does.
TryFormats(dt, fmts) ==
    LET parsing == { i \in DOMAIN fmts : strptime(dt, fmts[i]).exc = None }
    IN  IF parsing = {} THEN [exc |-> "ValueError", value |-> 0]
        ELSE strptime(dt, fmts[CHOOSE i \in parsing : \A j \in parsing : i <= j])

\* Rule._ensure_datetime: [exc, value]; exc is None when it returns.
_ensure_datetime(dt) ==
    IF dt.type = "datetime" THEN [exc |-> None, value |-> dt.t]
    ELSE IF dt.type = "str" THEN TryFormats(dt, TimeFormats)
    ELSE [exc |-> "TypeError", value |-> 0]

(***************************************************************************)
(* Rule._get_severity and Rule._calculate_weight.                          *)
(***************************************************************************)
\* value is in sixtieths of a minute; thresholds are config['thresholds'].
\* Variant: strict comparisons in place of the inclusive ones.
_get_severity_strict(thresholds, value, reverse) ==
    LET v == IntTrunc(value)
    IN  IF reverse
        THEN IF v < thresholds.critical THEN "critical"
             ELSE IF v < thresholds.medium THEN "medium"
             ELSE IF v < thresholds.low THEN "low"
             ELSE None
        ELSE IF v > thresholds.critical THEN "critical"
             ELSE IF v > thresholds.medium THEN "medium"
             ELSE IF v > thresholds.low THEN "low"
             ELSE None

\* Variant: the tiers are tested from the mildest to the gravest.
_get_severity_low_first(thresholds, value, reverse) ==
    LET v == IntTrunc(value)
    IN  IF reverse
        THEN IF v <= thresholds.low THEN "low"
             ELSE IF v <= thresholds.medium THEN "medium"
             ELSE IF v <= thresholds.critical THEN "critical"
             ELSE None
        ELSE IF v >= thresholds.low THEN "low"
             ELSE IF v >= thresholds.medium THEN "medium"
             ELSE IF v >= thresholds.critical THEN "critical"
             ELSE None

_get_severity(thresholds, value, reverse) ==
    LET v == IntTrunc(value)
    IN  IF reverse
        THEN IF v <= thresholds.critical THEN "critical"
             ELSE IF v <= thresholds.medium THEN "medium"
             ELSE IF v <= thresholds.low THEN "low"
             ELSE None
        ELSE IF v >= thresholds.critical THEN "critical"
             ELSE IF v >= thresholds.medium THEN "medium"
             ELSE IF v >= thresholds.low THEN "low"
             ELSE None

\* dict.get(key, default).
Get(mapping, key, default) ==
    IF key \in DOMAIN mapping THEN mapping[key] ELSE default

\* weights is config['weights']; excess and the result are floats (a whole
\* number is the float of the same value: the sums and products of the whole
\* numbers met here are exact in either arithmetic).
_calculate_weight(weights, severity, excess) ==
    LET base_weight == IF severity = "critical" THEN weights.base_critical
                       ELSE IF severity = "medium" THEN weights.base_medium
                       ELSE weights.base_low
        coefficient == Get(weights, "coefficient_per_minute", 0)
    IN  float_add(float(base_weight), float_mul(excess, coefficient))

(***************************************************************************)
(* InferenceEngine._calculate_rating.  schedule_rating is the mapping      *)
(* general_config['schedule_rating'], a function from the keys present to  *)
(* whole numbers; total_weight is a float.  The Czech labels are           *)
(* written without their diacritics: VYNIKAJICI, DOBRE, PRIJATELNE,        *)
(* SPATNE, KRITICKE.                                                       *)
(***************************************************************************)
\* Variant: strict comparisons in place of the inclusive ones.
_calculate_rating_strict(schedule_rating, total_weight) ==
    IF float_le(total_weight, Get(schedule_rating, "excellent", 0))
          /\ total_weight # float(Get(schedule_rating, "excellent", 0))
        THEN "VYNIKAJICI"
    ELSE IF float_le(total_weight, Get(schedule_rating, "good", 100))
          /\ total_weight # float(Get(schedule_rating, "good", 100))
        THEN "DOBRE"
    ELSE IF float_le(total_weight, Get(schedule_rating, "acceptable", 300))
          /\ total_weight # float(Get(schedule_rating, "acceptable", 300))
        THEN "PRIJATELNE"
    ELSE IF float_le(total_weight, Get(schedule_rating, "poor", 600))
          /\ total_weight # float(Get(schedule_rating, "poor", 600))
        THEN "SPATNE"
    ELSE "KRITICKE"

_calculate_rating(schedule_rating, total_weight) ==
    IF float_le(total_weight, Get(schedule_rating, "excellent", 0))
        THEN "VYNIKAJICI"
    ELSE IF float_le(total_weight, Get(schedule_rating, "good", 100))
        THEN "DOBRE"
    ELSE IF float_le(total_weight, Get(schedule_rating, "acceptable", 300))
        THEN "PRIJATELNE"
    ELSE IF float_le(total_weight, Get(schedule_rating, "poor", 600))
        THEN "SPATNE"
    ELSE "KRITICKE"

(***************************************************************************)
(* sorted(performances, key=lambda p: self._ensure_datetime(p.start_time)) *)
(* The key is computed for every item, in list order, before any           *)
(* comparison, so the first unparseable start time raises; the sort is     *)
(* stable: an item goes after the items with a smaller key and after the   *)
(* earlier items with an equal key.                                        *)
(***************************************************************************)
\* The first exception of a sequence of evaluations, None when none raised.
FirstExc(rs) ==
    LET bad == { i \in DOMAIN rs : rs[i].exc # None }
    IN  IF bad = {} THEN None
        ELSE rs[CHOOSE i \in bad : \A j \in bad : i <= j].exc

\* The item is a Performance: it has a start_time.  A Competition and None,
\* which fill_with_data puts in a jury's list, have none.
IsPerformance(item) == "start_time" \in DOMAIN item

\* The key of every item; "p.start_time" raises AttributeError on an item
\* that is not a Performance.
StartKeys(performances) ==
    [i \in DOMAIN performances |->
        IF IsPerformance(performances[i])
        THEN _ensure_datetime(performances[i].start_time)
        ELSE [exc |-> "AttributeError", value |-> 0]]

SortPosition(keys, i) ==
    1 + Cardinality({ j \in DOMAIN keys :
                        \/ keys[j].value < keys[i].value
                        \/ keys[j].value = keys[i].value /\ j < i })

\* Variant: the keys are computed but the list order is kept.
sorted_unordered(performances) ==
    [exc |-> FirstExc(StartKeys(performances)), value |-> performances]

sorted(performances) ==
    LET keys == StartKeys(performances)
        exc == FirstExc(keys)
    IN  IF exc # None THEN [exc |-> exc, value |-> <<>>]
        ELSE [exc |-> None,
              value |-> [r \in DOMAIN performances |->
                            performances[CHOOSE i \in DOMAIN performances :
                                            SortPosition(keys, i) = r]]]

Violation(rule_name, severity, weight, entity_id, entity_name, details) ==
    [rule_name |-> rule_name, severity |-> severity, weight |-> weight,
     entity_id |-> entity_id, entity_name |-> entity_name, details |-> details]

\* What a check, or a part of one, ends with: an exception or its violations.
Raised(exc) == [exc |-> exc, violations |-> <<>>]
Returned(violations) == [exc |-> None, violations |-> violations]

\* The continuity test of the block walks: gap in sixtieths of a minute.
\* Variant: a gap of exactly 10 minutes counted as continuous.
IsContinuous_inclusive(gap) == gap <= ContinuityGap * SecondsPerMinute

IsContinuous(gap) == gap < ContinuityGap * SecondsPerMinute

\* "continuous_duration += curr.duration" on the state of a block walk.
\* Variant: the duration replaced instead of added.
Merged_overwriting(before, curr) ==
    [before EXCEPT !.continuous_duration = curr.duration]

Merged(before, curr) ==
    [before EXCEPT !.continuous_duration = @ + curr.duration]

\* "Check last block", after the loop of a block walk: after is the state the
\* loop ended in, last what the check of the block still open gives.
\* Variant: the block still open after the loop is not checked.
CheckLastBlock_skipped(after, last) ==
    IF after.exc # None THEN Raised(after.exc)
    ELSE Returned(after.violations)

CheckLastBlock(after, last) ==
    IF after.exc # None THEN Raised(after.exc)
    ELSE IF last.exc # None THEN Raised(last.exc)
    ELSE Returned(after.violations \o last.violations)

(***************************************************************************)
(* MaxContinuousDancingRule.                                               *)
(* A violation's description, a formatted text, is left out; details       *)
(* holds gap_minutes in sixtieths, excess_minutes and shortage_minutes as  *)
(* floats.                                                                 *)
(***************************************************************************)
\* _check_duration: [exc, violations], violations of length 0 or 1.
_check_duration(config, competitor, duration, start_perf, end_perf) ==
    LET severity == _get_severity(config.thresholds, duration * SecondsPerMinute, FALSE)
    IN  IF severity = None THEN Returned(<<>>)
        ELSE LET threshold == config.thresholds[severity]
                 excess == float(duration - threshold)
                 weight == _calculate_weight(config.weights, severity, excess)
                 start_time == _ensure_datetime(start_perf.start_time)
                 end_time == _ensure_datetime(end_perf.end_time)
                 exc == FirstExc(<<start_time, end_time>>)
             IN  IF exc # None THEN Raised(exc)
                 ELSE Returned(<<Violation("MaxContinuousDancing", severity, weight,
                         competitor.id, competitor.full_name_1,
                         [duration_minutes |-> duration,
                          threshold_minutes |-> threshold,
                          excess_minutes |-> excess,
                          start_time |-> start_time.value,
                          end_time |-> end_time.value])>>)

\* The block walk of one competitor, performances sorted and at least 2 long.
\* walk[i] is the state after the iteration on performances[i] (1-based) of
\* "for i in range(1, len(performances))"; walk[1] is the state before the
\* loop.  The last block is checked after the loop.
DancingWalk(config, competitor, performances) ==
    LET n == Len(performances)
        walk[i \in 1..n] ==
            IF i = 1
            THEN [exc |-> None, violations |-> <<>>,
                  continuous_duration |-> performances[1].duration,
                  block_start |-> performances[1]]
            ELSE LET before == walk[i - 1]
                     prev == performances[i - 1]
                     curr == performances[i]
                     prev_start == _ensure_datetime(prev.start_time)
                     prev_end == _ensure_datetime(prev.end_time)
                     curr_start == _ensure_datetime(curr.start_time)
                     curr_end == _ensure_datetime(curr.end_time)
                     exc == FirstExc(<<prev_start, prev_end, curr_start, curr_end>>)
                     gap == curr_start.value - prev_end.value
                     closed == _check_duration(config, competitor,
                                   before.continuous_duration, before.block_start, prev)
                 IN  IF before.exc # None THEN before
                     ELSE IF exc # None THEN [before EXCEPT !.exc = exc]
                     ELSE IF IsContinuous(gap)
                     THEN Merged(before, curr)
                     ELSE IF closed.exc # None THEN [before EXCEPT !.exc = closed.exc]
                     ELSE [exc |-> None,
                           violations |-> before.violations \o closed.violations,
                           continuous_duration |-> curr.duration,
                           block_start |-> curr]
        after == walk[n]
        last == _check_duration(config, competitor, after.continuous_duration,
                                after.block_start, performances[n])
    IN  CheckLastBlock(after, last)

\* One iteration of "for competitor in competitors".
DancingCompetitor(config, competitor) ==
    LET performances == sorted(competitor.performances)
    IN  IF performances.exc # None THEN Raised(performances.exc)
        ELSE IF Len(performances.value) < 2 THEN Returned(<<>>)
        ELSE DancingWalk(config, competitor, performances.value)

(***************************************************************************)
(* CostumeChangeTimeRule.                                                  *)
(***************************************************************************)
\* The condition "if (curr.competition and next_perf.competition and ...)".
\* Variant: without the test that the disciplines differ.
CostumeEligible_noDifference(disciplines, curr, next_perf) ==
    /\ curr.competition.linked
    /\ next_perf.competition.linked
    /\ curr.competition.discipline \in disciplines
    /\ next_perf.competition.discipline \in disciplines

CostumeEligible(disciplines, curr, next_perf) ==
    /\ curr.competition.linked
    /\ next_perf.competition.linked
    /\ curr.competition.discipline \in disciplines
    /\ next_perf.competition.discipline \in disciplines
    /\ curr.competition.discipline # next_perf.competition.discipline

\* The body of "for i in range(len(performances) - 1)" for one pair.
CostumePair(config, competitor, curr, next_perf) ==
    IF ~CostumeEligible(config.disciplines, curr, next_perf) THEN Returned(<<>>)
    ELSE LET curr_end == _ensure_datetime(curr.end_time)
             next_start == _ensure_datetime(next_perf.start_time)
             exc == FirstExc(<<curr_end, next_start>>)
             gap_minutes == next_start.value - curr_end.value
             severity == _get_severity(config.thresholds, gap_minutes, TRUE)
         IN  IF exc # None THEN Raised(exc)
             ELSE IF severity = None THEN Returned(<<>>)
             ELSE LET threshold == config.thresholds[severity]
                      shortage == float_sub(float(threshold), truediv60(gap_minutes))
                      weight == _calculate_weight(config.weights, severity, shortage)
                  IN  Returned(<<Violation("CostumeChangeTime", severity, weight,
                          competitor.id, competitor.full_name_1,
                          [gap_minutes |-> gap_minutes,
                           required_minutes |-> config.min_gap_minutes,
                           shortage_minutes |-> shortage,
                           from_discipline |-> curr.competition.discipline,
                           to_discipline |-> next_perf.competition.discipline,
                           from_time |-> curr_end.value,
                           to_time |-> next_start.value])>>)

\* The loop over the consecutive pairs: walk[i] is the outcome after the
\* first i pairs; an exception ends the loop.
CostumeWalk(config, competitor, performances) ==
    LET n == Len(performances)
        walk[i \in 0..n] ==
            IF i = 0 THEN Returned(<<>>)
            ELSE LET before == walk[i - 1]
                     r == CostumePair(config, competitor,
                                      performances[i], performances[i + 1])
                 IN  IF before.exc # None THEN before
                     ELSE IF r.exc # None THEN Raised(r.exc)
                     ELSE Returned(before.violations \o r.violations)
    IN  IF n < 2 THEN Returned(<<>>) ELSE walk[n - 1]

CostumeCompetitor(config, competitor) ==
    LET performances == sorted(competitor.performances)
    IN  IF performances.exc # None THEN Raised(performances.exc)
        ELSE CostumeWalk(config, competitor, performances.value)

(***************************************************************************)
(* MaxContinuousJudgingRule.                                               *)
(***************************************************************************)
_check_judging_duration(config, jury, duration, start_perf, end_perf) ==
    LET severity == _get_severity(config.thresholds, duration * SecondsPerMinute, FALSE)
    IN  IF severity = None THEN Returned(<<>>)
        ELSE LET threshold == config.thresholds[severity]
                 excess == float(duration - threshold)
                 weight == _calculate_weight(config.weights, severity, excess)
                 start_time == _ensure_datetime(start_perf.start_time)
                 end_time == _ensure_datetime(end_perf.end_time)
                 exc == FirstExc(<<start_time, end_time>>)
             IN  IF exc # None THEN Raised(exc)
                 ELSE Returned(<<Violation("MaxContinuousJudging", severity, weight,
                         jury.id, jury.name,
                         [duration_minutes |-> duration,
                          threshold_minutes |-> threshold,
                          excess_minutes |-> excess,
                          start_time |-> start_time.value,
                          end_time |-> end_time.value])>>)

\* The block walk of one jury, performances sorted and not empty; as
\* DancingWalk, but only prev.end_time and curr.start_time are converted.
JudgingWalk(config, jury, performances) ==
    LET n == Len(performances)
        walk[i \in 1..n] ==
            IF i = 1
            THEN [exc |-> None, violations |-> <<>>,
                  continuous_duration |-> performances[1].duration,
                  block_start |-> performances[1]]
            ELSE LET before == walk[i - 1]
                     prev == performances[i - 1]
                     curr == performances[i]
                     prev_end == _ensure_datetime(prev.end_time)
                     curr_start == _ensure_datetime(curr.start_time)
                     exc == FirstExc(<<prev_end, curr_start>>)
                     gap == curr_start.value - prev_end.value
                     closed == _check_judging_duration(config, jury,
                                   before.continuous_duration, before.block_start, prev)
                 IN  IF before.exc # None THEN before
                     ELSE IF exc # None THEN [before EXCEPT !.exc = exc]
                     ELSE IF IsContinuous(gap)
                     THEN Merged(before, curr)
                     ELSE IF closed.exc # None THEN [before EXCEPT !.exc = closed.exc]
                     ELSE [exc |-> None,
                           violations |-> before.violations \o closed.violations,
                           continuous_duration |-> curr.duration,
                           block_start |-> curr]
        after == walk[n]
        last == _check_judging_duration(config, jury, after.continuous_duration,
                                        after.block_start, performances[n])
    IN  CheckLastBlock(after, last)

\* One iteration of "for jury in juries".
JudgingJury(config, jury) ==
    IF jury.performances = <<>> THEN Returned(<<>>)
    ELSE LET performances == sorted(jury.performances)
         IN  IF performances.exc # None THEN Raised(performances.exc)
             ELSE JudgingWalk(config, jury, performances.value)

(***************************************************************************)
(* MaxGapBetweenPerformancesRule.                                          *)
(***************************************************************************)
GapPair(config, competitor, curr, next_perf) ==
    LET curr_end == _ensure_datetime(curr.end_time)
        next_start == _ensure_datetime(next_perf.start_time)
        exc == FirstExc(<<curr_end, next_start>>)
        gap_minutes == next_start.value - curr_end.value
        severity == _get_severity(config.thresholds, gap_minutes, FALSE)
    IN  IF exc # None THEN Raised(exc)
        ELSE IF severity = None THEN Returned(<<>>)
        ELSE LET threshold == config.thresholds[severity]
                 excess == float_sub(truediv60(gap_minutes), float(threshold))
                 weight == _calculate_weight(config.weights, severity, excess)
             IN  Returned(<<Violation("MaxGapBetweenPerformances", severity, weight,
                     competitor.id, competitor.full_name_1,
                     [gap_minutes |-> gap_minutes,
                      threshold_minutes |-> threshold,
                      excess_minutes |-> excess,
                      first_performance_end |-> curr_end.value,
                      second_performance_start |-> next_start.value])>>)

GapWalk(config, competitor, performances) ==
    LET n == Len(performances)
        walk[i \in 0..n] ==
            IF i = 0 THEN Returned(<<>>)
            ELSE LET before == walk[i - 1]
                     r == GapPair(config, competitor,
                                  performances[i], performances[i + 1])
                 IN  IF before.exc # None THEN before
                     ELSE IF r.exc # None THEN Raised(r.exc)
                     ELSE Returned(before.violations \o r.violations)
    IN  IF n < 2 THEN Returned(<<>>) ELSE walk[n - 1]

GapCompetitor(config, competitor) ==
    IF Len(competitor.performances) < 2 THEN Returned(<<>>)
    ELSE LET performances == sorted(competitor.performances)
         IN  IF performances.exc # None THEN Raised(performances.exc)
             ELSE GapWalk(config, competitor, performances.value)

(***************************************************************************)
(* The check methods: the enabled test, the accessor call and the loop     *)
(* over the entities (an exception leaves the loop and the method).        *)
(***************************************************************************)
\* The outcome of a loop over entities from the outcomes of its iterations.
LoopOutcome(outcomes) ==
    IF FirstExc(outcomes) # None THEN Raised(FirstExc(outcomes))
    ELSE Returned(Concat([i \in DOMAIN outcomes |-> outcomes[i].violations]))

\* ScheduleGraph.get_competitors.
get_competitors(g) == g.competitors

\* graph.get_juries(): a graph object without the method raises AttributeError.
get_juries(g) ==
    IF g.has_get_juries THEN [exc |-> None, value |-> g.juries]
    ELSE [exc |-> "AttributeError", value |-> <<>>]

\* Variant: without the enabled test.
MaxContinuousDancingRule_check_always(config, g) ==
    LET competitors == get_competitors(g)
    IN  LoopOutcome([i \in DOMAIN competitors |->
                        DancingCompetitor(config, competitors[i])])

MaxContinuousDancingRule_check(config, g) ==
    IF ~config.enabled THEN Returned(<<>>)
    ELSE LET competitors == get_competitors(g)
         IN  LoopOutcome([i \in DOMAIN competitors |->
                             DancingCompetitor(config, competitors[i])])

CostumeChangeTimeRule_check(config, g) ==
    IF ~config.enabled THEN Returned(<<>>)
    ELSE LET competitors == get_competitors(g)
         IN  LoopOutcome([i \in DOMAIN competitors |->
                             CostumeCompetitor(config, competitors[i])])

MaxContinuousJudgingRule_check(config, g) ==
    IF ~config.enabled THEN Returned(<<>>)
    ELSE LET juries == get_juries(g)
         IN  IF juries.exc # None THEN Raised(juries.exc)
             ELSE LoopOutcome([i \in DOMAIN juries.value |->
                                  JudgingJury(config, juries.value[i])])

MaxGapBetweenPerformancesRule_check(config, g) ==
    IF ~config.enabled THEN Returned(<<>>)
    ELSE LET competitors == get_competitors(g)
         IN  LoopOutcome([i \in DOMAIN competitors |->
                             GapCompetitor(config, competitors[i])])

(***************************************************************************)
(* InferenceEngine: grouping and the result.                               *)
(***************************************************************************)
SeqToSet(s) == {s[i] : i \in DOMAIN s}

\* Variant: a bucket only for the severities that occur.
_group_by_severity_sparse(violations) ==
    [severity \in {violations[i].severity : i \in DOMAIN violations} |->
        SelectSeq(violations, LAMBDA v : v.severity = severity)]

_group_by_severity(violations) ==
    [severity \in SeqToSet(Severity) |->
        SelectSeq(violations, LAMBDA v : v.severity = severity)]

\* Variant: a key for each of the four rule names, as for the severities.
_group_by_rule_all(violations) ==
    [rule_name \in SeqToSet(RuleNames) |->
        SelectSeq(violations, LAMBDA v : v.rule_name = rule_name)]

_group_by_rule(violations) ==
    [rule_name \in {violations[i].rule_name : i \in DOMAIN violations} |->
        SelectSeq(violations, LAMBDA v : v.rule_name = rule_name)]

\* sum(v.weight for v in all_violations): from 0, the weights are added one
\* by one in list order, each addition rounded to a float.
\* Variant: the weight of the first violation alone.
SumWeights_first(violations) ==
    IF violations = <<>> THEN float(0) ELSE Head(violations).weight

RECURSIVE SumWeights(_)
SumWeights(violations) ==
    IF violations = <<>> THEN float(0)
    ELSE float_add(SumWeights(SubSeq(violations, 1, Len(violations) - 1)),
                   violations[Len(violations)].weight)

ScheduleAnalysisResult(violations, config) ==
    LET total_weight == SumWeights(violations)
    IN  [total_weight |-> total_weight,
         rating |-> _calculate_rating(Get(config, "schedule_rating", <<>>), total_weight),
         violations |-> violations,
         violations_by_severity |-> _group_by_severity(violations),
         violations_by_rule |-> _group_by_rule(violations)]

NoResult == [returned |-> FALSE]

(***************************************************************************)
(* Inputs.  The performances a graph is assembled from: Performance        *)
(* objects with start_time, end_time, duration (minutes, a column of its   *)
(* own in the schedule table) and the competition link.                    *)
(***************************************************************************)
Competition(discipline) == [linked |-> TRUE, discipline |-> discipline]
NoCompetition == [linked |-> FALSE, discipline |-> ""]

Performance(start_time, end_time, duration, competition) ==
    [start_time |-> start_time, end_time |-> end_time,
     duration |-> duration, competition |-> competition]

PerfPool ==
    << Performance(DateTime(HMS(9, 0, 0)), DateTime(HMS(9, 20, 0)),
                   20, Competition("Latin")),
       Performance(TimeStr("%H:%M", HMS(9, 25, 0)), TimeStr("%H:%M", HMS(9, 45, 0)),
                   20, Competition("Standard")),
       Performance(DateTime(HMS(10, 10, 0)), DateTime(HMS(10, 30, 0)),
                   20, Competition("Latin")),
       Performance(TimeStr("%H:%M:%S", HMS(9, 50, 30)), TimeStr("%H:%M:%S", HMS(10, 0, 0)),
                   9, Competition("Latin")),
       Performance(TimeStr("%Y-%m-%d %H:%M:%S", HMS(9, 24, 0)), DateTime(HMS(9, 40, 0)),
                   50, Competition("Standard")),
       Performance(TimeStr("%Y-%m-%d %H:%M", HMS(9, 47, 0)), BadStr,
                   95, Competition("Show")),
       Performance(DateTime(HMS(9, 21, 0)), DateTime(HMS(9, 23, 20)),
                   2, NoCompetition),
       Performance(BadStr, DateTime(HMS(9, 58, 0)),
                   20, Competition("Latin")) >>

\* The performance lists of at most n items, none twice in a list.
PerfLists(n) ==
    UNION { { [i \in 1..k |-> PerfPool[f[i]]] :
                f \in { g \in [1..k -> DOMAIN PerfPool] :
                          \A i, j \in 1..k : i # j => g[i] # g[j] } } :
            k \in 0..n }

\* The sequences of k performance lists with at most budget items in all.
RECURSIVE PerfListSeqs(_, _)
PerfListSeqs(k, budget) ==
    IF k = 0 THEN { <<>> }
    ELSE UNION { { <<pl>> \o rest : rest \in PerfListSeqs(k - 1, budget - Len(pl)) } :
                 pl \in PerfLists(budget) }

Competitor(i, performances) ==
    [id |-> "c" \o ToString(i), full_name_1 |-> "Dancer " \o ToString(i),
     performances |-> performances]

Jury(i, performances) ==
    [id |-> "j" \o ToString(i), name |-> "Judge " \o ToString(i),
     performances |-> performances]

\* The numbers of competitors and juries of a graph, and whether the graph
\* object has a get_juries method (the judging rule calls it; ScheduleGraph
\* defines none, and then its juries are never read).
GraphShapes ==
    { t \in (0..MaxCompetitors) \X (0..MaxJuries) \X BOOLEAN :
        /\ t[1] + t[2] <= MaxEntities
        /\ ~t[3] => t[2] = 0 }

\* A graph put together by the caller, entity by entity: its lists of
\* performances and of competitions, which the engine never reads, are left
\* empty.
Graph(nc, nj, has, pls) ==
    [competitors |-> [i \in 1..nc |-> Competitor(i, pls[i])],
     juries |-> [i \in 1..nj |-> Jury(i, pls[nc + i])],
     performances |-> <<>>,
     competitions |-> <<>>,
     has_get_juries |-> has]

\* The graphs the caller puts together: at most budget performance entries
\* in a graph of one entity, at most MaxPerfsOfTwo in a graph of two.
Graphs(budget) ==
    UNION { { Graph(t[1], t[2], t[3], pls) :
                pls \in PerfListSeqs(t[1] + t[2],
                                     IF t[1] + t[2] >= 2 THEN MaxPerfsOfTwo
                                     ELSE budget) } :
            t \in GraphShapes }

\* Which rules are enabled: all, all but one, or none.
EnabledChoices ==
    { e \in [1..4 -> BOOLEAN] : Cardinality({ k \in 1..4 : ~e[k] }) \in {0, 1, 4} }

\* The rule sections of the rules configuration.
RuleConfig(k, enabled) ==
    IF k = 1 THEN
        [enabled |-> enabled,
         thresholds |-> [critical |-> 90, medium |-> 60, low |-> 40],
         weights |-> [base_critical |-> 100, base_medium |-> 50, base_low |-> 10,
                      coefficient_per_minute |-> 2]]
    ELSE IF k = 2 THEN
        [enabled |-> enabled,
         thresholds |-> [critical |-> 5, medium |-> 10, low |-> 15],
         weights |-> [base_critical |-> 150, base_medium |-> 60, base_low |-> 20,
                      coefficient_per_minute |-> 5],
         disciplines |-> {"Latin", "Standard"},
         min_gap_minutes |-> 15]
    ELSE IF k = 3 THEN
        [enabled |-> enabled,
         thresholds |-> [critical |-> 60, medium |-> 40, low |-> 20],
         weights |-> [base_critical |-> 120, base_medium |-> 40, base_low |-> 15,
                      coefficient_per_minute |-> 3]]
    ELSE
        [enabled |-> enabled,
         thresholds |-> [critical |-> 50, medium |-> 25, low |-> 10],
         weights |-> [base_critical |-> 80, base_medium |-> 30, base_low |-> 5,
                      coefficient_per_minute |-> 1]]

GeneralConfig ==
    [schedule_rating |-> [excellent |-> 0, good |-> 100, acceptable |-> 300, poor |-> 600]]

\* The names of the rule sections, in the order load_rules_from_config reads
\* them.
RuleSections == <<"max_continuous_dancing", "costume_change_time",
                  "max_continuous_judging", "max_gap_between_performances">>

\* The content of a rules configuration file with every section.
RulesFile(enabled) ==
    [section \in SeqToSet(RuleSections) \cup {"general"} |->
        IF section = "general" THEN GeneralConfig
        ELSE RuleConfig(CHOOSE k \in 1..4 : RuleSections[k] = section,
                        enabled[CHOOSE k \in 1..4 : RuleSections[k] = section])]

\* Rule.__init__: the rule keeps its section as self.config and
\* self.enabled = config.get('enabled', True); a rule is held here as its
\* section with enabled filled in.
Rule(config) ==
    [key \in DOMAIN config \cup {"enabled"} |->
        IF key = "enabled" THEN Get(config, "enabled", TRUE) ELSE config[key]]

\* Variant: a section that is absent is passed over.
load_rules_from_config_lenient(config) ==
    [exc |-> None,
     value |-> [k \in 1..4 |->
                  IF RuleSections[k] \in DOMAIN config
                  THEN Rule(config[RuleSections[k]])
                  ELSE Rule(<<>>)]]

\* load_rules_from_config on the parsed content of the file: the four rules,
\* in this order; config['<section>'] raises KeyError when the section is
\* absent.
load_rules_from_config(config) ==
    IF \E k \in 1..4 : RuleSections[k] \notin DOMAIN config
    THEN [exc |-> "KeyError", value |-> <<>>]
    ELSE [exc |-> None, value |-> [k \in 1..4 |-> Rule(config[RuleSections[k]])]]

NoCall == [op |-> "none"]

(***************************************************************************)
(* The engine: analyze_schedule on a loaded engine.                        *)
(***************************************************************************)
\* The list handed to sorted(...), after the call: sorted builds a new list
\* and leaves its argument as it was.
\* Variant: the list sorted in place, as list.sort(key=...) does.
argument_after_sort_in_place(performances) ==
    IF sorted(performances).exc # None THEN performances
    ELSE sorted(performances).value

argument_after_sorted(performances) == performances

\* The graph after rule k (1..4) has checked it: a rule that is enabled hands
\* the performances of the entities it loops over to sorted(...); it assigns
\* to no attribute of the graph, of an entity or of a performance.
GraphAfterCheck(k, config, g) ==
    IF ~config.enabled THEN g
    ELSE IF k = 3 /\ ~g.has_get_juries THEN g
    ELSE IF k = 3
    THEN [g EXCEPT !.juries =
            [i \in DOMAIN g.juries |->
                [g.juries[i] EXCEPT !.performances = argument_after_sorted(@)]]]
    ELSE [g EXCEPT !.competitors =
            [i \in DOMAIN g.competitors |->
                [g.competitors[i] EXCEPT !.performances = argument_after_sorted(@)]]]

\* "all_violations = []": a new list, whatever an earlier call collected.
\* Variant: the list of the earlier call kept.
NewViolationList_kept(collected) == collected

NewViolationList(collected) == <<>>

\* all_violations.extend(violations).
\* Variant: the new violations put in front.
extend_front(violations, more) == more \o violations

extend(violations, more) == violations \o more

(***************************************************************************)
(* ScheduleGraph.fill_with_data.  The files the configuration names are    *)
(* held as the rows the Excel loader gives (every cell a string):          *)
(*   competitions  rows [id, discipline]                                   *)
(*   schedule      rows [competition_id, start_time, end_time, duration],  *)
(*                 duration a count of seconds; has_end_time tells whether *)
(*                 the configuration names an end_time column              *)
(*   jury          rows [id, name, surname, assignments]                   *)
(*   competitors   rows [p1_name_surname, assignments]                     *)
(* assignments being the competition ids of the columns marked "1".        *)
(***************************************************************************)
\* A cell holding the digits of n, and a cell int() does not accept.
IntCell(n) == [digits |-> TRUE, value |-> n]
TextCell == [digits |-> FALSE, value |-> 0]

\* int(cell).
int(cell) ==
    IF cell.digits THEN [exc |-> None, value |-> cell.value]
    ELSE [exc |-> "ValueError", value |-> 0]

\* ScheduleGraph.__init__.
ScheduleGraph ==
    [competitors |-> <<>>, juries |-> <<>>, performances |-> <<>>,
     competitions |-> <<>>, has_get_juries |-> FALSE]

\* CompetitionParser.parse: one Competition for every row.
CompetitionParser_parse(rows) ==
    [i \in DOMAIN rows |-> [id |-> rows[i].id, discipline |-> rows[i].discipline]]

\* The end time of a schedule row: the cell read as "%H:%M:%S", or, when the
\* configuration names no end_time column (KeyError), start + duration.
RowEndTime(row, has_end_time, start_time, duration) ==
    IF has_end_time THEN strptime(row.end_time, "%H:%M:%S")
    ELSE [exc |-> None, value |-> start_time + duration * SecondsPerMinute]

\* One row of PerformanceParser.parse: skipped when its competition id is
\* not a number; a time that is not written as "%H:%M:%S" raises ValueError.
ParsedRow(row, has_end_time, start_time, duration) ==
    IF int(row.competition_id).exc # None THEN [exc |-> None, items |-> <<>>]
    ELSE IF start_time.exc # None THEN [exc |-> start_time.exc, items |-> <<>>]
    ELSE IF RowEndTime(row, has_end_time, start_time.value, duration).exc # None
    THEN [exc |-> RowEndTime(row, has_end_time, start_time.value, duration).exc,
          items |-> <<>>]
    ELSE [exc |-> None,
          items |-> << [performance |->
                          Performance(DateTime(start_time.value),
                                      DateTime(RowEndTime(row, has_end_time,
                                                          start_time.value,
                                                          duration).value),
                                      duration, NoCompetition),
                        competition_id |-> int(row.competition_id).value] >>]

\* PerformanceParser.parse: the performances of the rows, each with the id
\* of its competition.
PerformanceParser_parse(rows, has_end_time) ==
    LET parsed == [i \in DOMAIN rows |->
                      ParsedRow(rows[i], has_end_time,
                                strptime(rows[i].start_time, "%H:%M:%S"),
                                rows[i].duration \div SecondsPerMinute)]
    IN  IF FirstExc(parsed) # None THEN [exc |-> FirstExc(parsed), value |-> <<>>]
        ELSE [exc |-> None, value |-> Concat([i \in DOMAIN parsed |-> parsed[i].items])]

\* ScheduleGraph.get_competition_by_id on self.competitions: the first
\* competition with the id as a Performance or a Jury refers to it, None
\* (NoCompetition) when there is none.
get_competition_by_id(competitions, id) ==
    IF \E i \in DOMAIN competitions : competitions[i].id = id
    THEN Competition(competitions[CHOOSE i \in DOMAIN competitions :
                                     /\ competitions[i].id = id
                                     /\ \A j \in 1..(i - 1) : competitions[j].id # id]
                         .discipline)
    ELSE NoCompetition

\* "Connecting performances to competitions": performance.competition is
\* set when the competition is found.
LinkedPerformances(parsed, competitions) ==
    [i \in DOMAIN parsed |->
        [parsed[i].performance EXCEPT
            !.competition = get_competition_by_id(competitions,
                                                  parsed[i].competition_id)]]

\* competition.performances of the competition with the id, after the
\* performances have been connected.
CompetitionPerformances(parsed, competitions, id) ==
    LET at == { i \in DOMAIN parsed : parsed[i].competition_id = id }
        linked == LinkedPerformances(parsed, competitions)
    IN  [r \in 1..Cardinality(at) |->
            linked[CHOOSE i \in at :
                      Cardinality({ j \in at : j <= i }) = r]]

\* JuryParser.parse and "Connecting judges to competitions": rows without
\* id are skipped; jury.performances receives, for every assignment, the
\* competition found, None when there is none.
FilledJuries(rows, competitions) ==
    LET kept == SelectSeq(rows, LAMBDA row : row.id # "")
    IN  [i \in DOMAIN kept |->
            [id |-> kept[i].id,
             name |-> kept[i].name \o " " \o kept[i].surname,
             performances |->
                [a \in DOMAIN kept[i].assignments |->
                    get_competition_by_id(competitions, kept[i].assignments[a])]]]

\* CompetitorsParser.parse and "Connecting competitors to competitions" for
\* row i (counted from 1; the id is the index of the row, from 0): the
\* dancer receives the performances of the competitions assigned; an
\* assignment to a competition that is not found raises AttributeError
\* ("competition.performances" on None).
FilledCompetitor(rows, i, parsed, competitions) ==
    IF \E a \in DOMAIN rows[i].assignments :
          ~get_competition_by_id(competitions, rows[i].assignments[a]).linked
    THEN [exc |-> "AttributeError", value |-> <<>>]
    ELSE [exc |-> None,
          value |-> << [id |-> ToString(i - 1),
                        full_name_1 |-> rows[i].p1_name_surname,
                        performances |->
                           Concat([a \in DOMAIN rows[i].assignments |->
                                     CompetitionPerformances(parsed, competitions,
                                                             rows[i].assignments[a])])] >>]

\* The competitors appended before the first one that raises.
FilledCompetitors(filled) ==
    LET bad == { i \in DOMAIN filled : filled[i].exc # None }
        n == IF bad = {} THEN Len(filled)
             ELSE (CHOOSE i \in bad : \A j \in bad : i <= j) - 1
    IN  Concat([i \in 1..n |-> filled[i].value])

\* The rest of fill_with_data once the schedule is parsed: self.performances,
\* self.juries and self.competitors are appended to, nothing is cleared.
FillParsed(g, files, competitions, parsed, filled) ==
    [exc |-> FirstExc(filled),
     graph |-> [g EXCEPT !.competitions = competitions,
                         !.performances = @ \o LinkedPerformances(parsed, competitions),
                         !.juries = @ \o FilledJuries(files.jury, competitions),
                         !.competitors = @ \o FilledCompetitors(filled)]]

\* graph.fill_with_data(config_path): the graph it leaves and the exception
\* it ends with.  self.competitions is assigned first; an exception of the
\* schedule parser leaves the rest of the graph as it was.
FillCompetitions(g, files, competitions, parsed) ==
    IF parsed.exc # None
    THEN [exc |-> parsed.exc, graph |-> [g EXCEPT !.competitions = competitions]]
    ELSE FillParsed(g, files, competitions, parsed.value,
                    [i \in DOMAIN files.competitors |->
                        FilledCompetitor(files.competitors, i, parsed.value,
                                         competitions)])

fill_with_data(g, files) ==
    FillCompetitions(g, files, CompetitionParser_parse(files.competitions),
                     PerformanceParser_parse(files.schedule, files.has_end_time))

\* A schedule row and its cells.
ScheduleRow(competition_id, start_time, end_time, duration) ==
    [competition_id |-> competition_id, start_time |-> start_time,
     end_time |-> end_time, duration |-> duration]

Clock(h, m, s) == TimeStr("%H:%M:%S", HMS(h, m, s))

\* The files fill_with_data is called on.
\*  1. one competitor in a Latin and a Standard competition, three
\*     performances; three jury rows, two of them with one id, no assignment
\*  2. no end_time column; a row of an unknown competition and a row without
\*     competition id; a jury assigned to a competition and to an unknown
\*     one, jury ids 7, 8, 7, a jury row without id; two competitors
\*  3. a start time that is not a time
\*  4. the second competitor assigned to an unknown competition
\*  5. empty tables
FileChoices ==
    << [competitions |-> << [id |-> 1, discipline |-> "Latin"],
                            [id |-> 2, discipline |-> "Standard"] >>,
        schedule |-> << ScheduleRow(IntCell(1), Clock(9, 0, 0), Clock(9, 10, 0), HMS(0, 20, 0)),
                        ScheduleRow(IntCell(2), Clock(9, 16, 2), Clock(9, 30, 0), HMS(0, 20, 0)),
                        ScheduleRow(IntCell(2), Clock(9, 45, 10), Clock(9, 55, 10), HMS(0, 1, 30)) >>,
        has_end_time |-> TRUE,
        jury |-> << [id |-> "7", name |-> "A", surname |-> "J", assignments |-> <<>>],
                    [id |-> "7", name |-> "B", surname |-> "J", assignments |-> <<>>],
                    [id |-> "8", name |-> "C", surname |-> "J", assignments |-> <<>>] >>,
        competitors |-> << [p1_name_surname |-> "Anna Nova", assignments |-> <<1, 2>>] >>],
       [competitions |-> << [id |-> 1, discipline |-> "Latin"],
                            [id |-> 1, discipline |-> "Show"] >>,
        schedule |-> << ScheduleRow(IntCell(1), Clock(10, 10, 0), Clock(0, 0, 0), HMS(0, 20, 0)),
                        ScheduleRow(IntCell(9), Clock(9, 0, 0), Clock(0, 0, 0), HMS(0, 5, 0)),
                        ScheduleRow(TextCell, BadStr, BadStr, HMS(0, 5, 0)),
                        ScheduleRow(IntCell(1), Clock(9, 0, 0), Clock(0, 0, 0), HMS(0, 50, 0)) >>,
        has_end_time |-> FALSE,
        jury |-> << [id |-> "7", name |-> "A", surname |-> "J", assignments |-> <<1, 9>>],
                    [id |-> "8", name |-> "C", surname |-> "J", assignments |-> <<>>],
                    [id |-> "", name |-> "", surname |-> "", assignments |-> <<>>],
                    [id |-> "7", name |-> "B", surname |-> "J", assignments |-> <<1>>] >>,
        competitors |-> << [p1_name_surname |-> "Anna Nova", assignments |-> <<1>>],
                           [p1_name_surname |-> "Petr Novy", assignments |-> <<>>] >>],
       [competitions |-> << [id |-> 1, discipline |-> "Latin"] >>,
        schedule |-> << ScheduleRow(IntCell(1), Clock(9, 0, 0), Clock(9, 20, 0), HMS(0, 20, 0)),
                        ScheduleRow(IntCell(1), BadStr, Clock(9, 40, 0), HMS(0, 20, 0)) >>,
        has_end_time |-> TRUE,
        jury |-> << [id |-> "7", name |-> "A", surname |-> "J", assignments |-> <<1>>] >>,
        competitors |-> << [p1_name_surname |-> "Anna Nova", assignments |-> <<1>>] >>],
       [competitions |-> << [id |-> 1, discipline |-> "Latin"] >>,
        schedule |-> << ScheduleRow(IntCell(1), Clock(9, 0, 0), Clock(9, 20, 0), HMS(0, 20, 0)) >>,
        has_end_time |-> TRUE,
        jury |-> << [id |-> "7", name |-> "A", surname |-> "J", assignments |-> <<1>>] >>,
        competitors |-> << [p1_name_surname |-> "Anna Nova", assignments |-> <<1>>],
                           [p1_name_surname |-> "Petr Novy", assignments |-> <<9>>],
                           [p1_name_surname |-> "Jana Mala", assignments |-> <<1>>] >>],
       [competitions |-> <<>>, schedule |-> <<>>, has_end_time |-> TRUE,
        jury |-> <<>>, competitors |-> <<>>] >>

\* The graphs fill_with_data builds from the files, on a new ScheduleGraph.
FilledGraphs ==
    { fill_with_data(ScheduleGraph, FileChoices[i]).graph :
        i \in { j \in DOMAIN FileChoices :
                  fill_with_data(ScheduleGraph, FileChoices[j]).exc = None } }

Init ==
    /\ graph \in Graphs(MaxPerfs) \cup FilledGraphs
    /\ rules \in { load_rules_from_config(RulesFile(e)).value : e \in EnabledChoices }
    /\ general_config = GeneralConfig
    /\ pc = "rule1"
    /\ all_violations = NewViolationList(<<>>)
    /\ result = NoResult
    /\ exception = None
    /\ call = NoCall
    /\ ret = None
    /\ history = <<>>

\* Variant of RunRule: an exception of the check caught, the loop going on.
RunRule_catching(checked, after, next_pc) ==
    /\ pc' = next_pc
    /\ all_violations' = IF checked.exc # None THEN all_violations
                         ELSE extend(all_violations, checked.violations)
    /\ graph' = after
    /\ UNCHANGED <<rules, general_config, result, call, ret, history, exception>>

\* One iteration of "for rule in self.rules": violations = rule.check(graph),
\* then all_violations.extend(violations); an exception leaves
\* analyze_schedule.  checked is what rule.check(graph) ended with, after the
\* graph as the check left it.
RunRule(checked, after, next_pc) ==
    /\ IF checked.exc # None
       THEN /\ pc' = "raised"
            /\ exception' = checked.exc
            /\ UNCHANGED all_violations
       ELSE /\ pc' = next_pc
            /\ all_violations' = extend(all_violations, checked.violations)
            /\ UNCHANGED exception
    /\ graph' = after
    /\ UNCHANGED <<rules, general_config, result, call, ret, history>>

CheckMaxContinuousDancing ==
    /\ pc = "rule1"
    /\ RunRule(MaxContinuousDancingRule_check(rules[1], graph),
               GraphAfterCheck(1, rules[1], graph), "rule2")

CheckCostumeChangeTime ==
    /\ pc = "rule2"
    /\ RunRule(CostumeChangeTimeRule_check(rules[2], graph),
               GraphAfterCheck(2, rules[2], graph), "rule3")

CheckMaxContinuousJudging ==
    /\ pc = "rule3"
    /\ RunRule(MaxContinuousJudgingRule_check(rules[3], graph),
               GraphAfterCheck(3, rules[3], graph), "rule4")

CheckMaxGapBetweenPerformances ==
    /\ pc = "rule4"
    /\ RunRule(MaxGapBetweenPerformancesRule_check(rules[4], graph),
               GraphAfterCheck(4, rules[4], graph), "aggregate")

\* The rest of analyze_schedule: grouping, total weight, rating, return.
Aggregate ==
    /\ pc = "aggregate"
    /\ result' = ScheduleAnalysisResult(all_violations, general_config)
    /\ pc' = "returned"
    /\ UNCHANGED <<graph, rules, general_config, all_violations, exception, call, ret,
                   history>>

\* Between two calls of analyze_schedule the caller fills the graph once
\* more, from the files the configuration names then.  The outcome of the
\* call that ended is the caller's to keep, with the graph it was computed
\* on; ret is the exception fill_with_data ends with, None when it returns.
FillWithData ==
    /\ pc \in {"returned", "raised"}
    /\ Len(history) + 1 < MaxCalls
    /\ \E i \in DOMAIN FileChoices :
          /\ graph' = fill_with_data(graph, FileChoices[i]).graph
          /\ ret' = fill_with_data(graph, FileChoices[i]).exc
    /\ history' = Append(history, [graph |-> graph, result |-> result])
    /\ pc' = "filled"
    /\ UNCHANGED <<rules, general_config, all_violations, result, exception, call>>

\* The caller calls analyze_schedule once more, on the same engine and the
\* same graph object; the outcome of the call that ended is the caller's to
\* keep, with the graph it was computed on.
AnalyzeAgain ==
    /\ pc \in {"returned", "raised", "filled"}
    /\ pc # "filled" => Len(history) + 1 < MaxCalls
    /\ history' = IF pc # "filled"
                  THEN Append(history, [graph |-> graph, result |-> result])
                  ELSE history
    /\ result' = NoResult
    /\ exception' = None
    /\ ret' = None
    /\ all_violations' = NewViolationList(all_violations)
    /\ pc' = "rule1"
    /\ UNCHANGED <<graph, rules, general_config, call>>

Next ==
    \/ CheckMaxContinuousDancing
    \/ CheckCostumeChangeTime
    \/ CheckMaxContinuousJudging
    \/ CheckMaxGapBetweenPerformances
    \/ Aggregate
    \/ FillWithData
    \/ AnalyzeAgain

Spec == Init /\ [][Next]_vars

\* "violations = rule.check(graph)" for the k-th rule of self.rules.
RuleCheck(k, g) ==
    CASE k = 1 -> MaxContinuousDancingRule_check(rules[1], g)
      [] k = 2 -> CostumeChangeTimeRule_check(rules[2], g)
      [] k = 3 -> MaxContinuousJudgingRule_check(rules[3], g)
      [] k = 4 -> MaxGapBetweenPerformancesRule_check(rules[4], g)

(***************************************************************************)
(* Function-level runs: one call of Rule._get_severity or of               *)
(* InferenceEngine._calculate_rating on inputs drawn from small sets.      *)
(***************************************************************************)
ThresholdChoices ==
    { [critical |-> 6, medium |-> 4, low |-> 2],
      [critical |-> 2, medium |-> 4, low |-> 6],
      [critical |-> 4, medium |-> 2, low |-> 0],
      [critical |-> 3, medium |-> 3, low |-> 3],
      [critical |-> 6, medium |-> 2, low |-> 4],
      [critical |-> 2, medium |-> 6, low |-> 4] }

\* Values from -1 minute to MaxMinutes minutes, in steps of half a minute.
ValueChoices == { k * 30 : k \in (-2)..(2 * MaxMinutes) }

SeverityCalls ==
    [op : {"_get_severity"}, thresholds : ThresholdChoices,
     value : ValueChoices, reverse : BOOLEAN]

RatingChoices ==
    { [excellent |-> 0, good |-> 100, acceptable |-> 300, poor |-> 600],
      [excellent |-> 0, good |-> 100, acceptable |-> 300],
      [excellent |-> 10, good |-> 20, acceptable |-> 30, poor |-> 40],
      <<>> }

\* The float next to x on side s (1 above, -1 below), x not a power of 2.
Neighbour(x, s) ==
    Float(x.sixtieths,
          x.dev + s * 60 * 2^(Exponent(x.sixtieths, x.dev) + 6))

\* Total weights at, just below and just above the thresholds in use: one
\* sixtieth away, and one float away.
WeightChoices ==
    { truediv60(t * SecondsPerMinute + d) :
        t \in {0, 10, 20, 30, 40, 100, 150, 300, 600}, d \in {-1, 0, 1} }
    \cup { Neighbour(float(t), s) :
             t \in {10, 20, 30, 40, 100, 150, 300, 600}, s \in {-1, 1} }

RatingCalls ==
    [op : {"_calculate_rating"}, schedule_rating : RatingChoices,
     total_weight : WeightChoices]

InitFn ==
    /\ graph = Graph(0, 0, FALSE, <<>>)
    /\ rules = load_rules_from_config(RulesFile([k \in 1..4 |-> TRUE])).value
    /\ general_config = GeneralConfig
    /\ pc = "idle"
    /\ all_violations = <<>>
    /\ result = NoResult
    /\ exception = None
    /\ call \in SeverityCalls \cup RatingCalls
    /\ ret = "pending"
    /\ history = <<>>

Call_get_severity ==
    /\ call.op = "_get_severity"
    /\ ret = "pending"
    /\ ret' = _get_severity(call.thresholds, call.value, call.reverse)
    /\ UNCHANGED <<graph, rules, general_config, pc, all_violations, result,
                   exception, call, history>>

Call_calculate_rating ==
    /\ call.op = "_calculate_rating"
    /\ ret = "pending"
    /\ ret' = _calculate_rating(call.schedule_rating, call.total_weight)
    /\ UNCHANGED <<graph, rules, general_config, pc, all_violations, result,
                   exception, call, history>>

NextFn == Call_get_severity \/ Call_calculate_rating

SpecFn == InitFn /\ [][NextFn]_vars

(***************************************************************************)
(* Construction of the engine: InferenceEngine(rules_config_path) on the   *)
(* parsed content of the rules configuration file, a mapping from section  *)
(* names to sections.                                                      *)
(***************************************************************************)
\* A mapping without some of its keys.
Without(mapping, keys) == [key \in DOMAIN mapping \ keys |-> mapping[key]]

ThresholdKeys == {"critical", "medium", "low"}
WeightKeys == {"base_critical", "base_medium", "base_low", "coefficient_per_minute"}

\* A rule section as it is, without its enabled key, or with one threshold or
\* one weight key left out.
SectionVariants(section) ==
    {section, Without(section, {"enabled"})}
    \cup { [section EXCEPT !.thresholds = Without(@, {key})] : key \in ThresholdKeys }
    \cup { [section EXCEPT !.weights = Without(@, {key})] : key \in WeightKeys }

\* The file contents: the full file without some of its sections, or with one
\* rule section changed.
ConfigFiles ==
    LET full == RulesFile([k \in 1..4 |-> TRUE])
    IN  { Without(full, missing) : missing \in SUBSET DOMAIN full }
        \cup UNION { { [full EXCEPT ![RuleSections[k]] = variant] :
                          variant \in SectionVariants(full[RuleSections[k]]) } :
                      k \in 1..4 }

ConstructorCalls == [op : {"InferenceEngine"}, config : ConfigFiles]

InitLoad ==
    /\ graph = Graph(0, 0, FALSE, <<>>)
    /\ rules = <<>>
    /\ general_config = <<>>
    /\ pc = "__init__"
    /\ all_violations = <<>>
    /\ result = NoResult
    /\ exception = None
    /\ call \in ConstructorCalls
    /\ ret = "pending"
    /\ history = <<>>

\* InferenceEngine.__init__ up to the call of _load_config.
Construct ==
    /\ call.op = "InferenceEngine"
    /\ pc = "__init__"
    /\ rules' = <<>>
    /\ general_config' = <<>>
    /\ pc' = "_load_config"
    /\ UNCHANGED <<graph, all_violations, result, exception, call, ret, history>>

\* _load_config: self.general_config = config.get('general', {}).
ReadGeneral ==
    /\ call.op = "InferenceEngine"
    /\ pc = "_load_config"
    /\ general_config' = Get(call.config, "general", <<>>)
    /\ pc' = "load_rules_from_config"
    /\ UNCHANGED <<graph, rules, all_violations, result, exception, call, ret, history>>

\* _load_config: self.rules = load_rules_from_config(...); an exception leaves
\* _load_config and the constructor, and there is no engine.
LoadRules ==
    /\ call.op = "InferenceEngine"
    /\ pc = "load_rules_from_config"
    /\ LET loaded == load_rules_from_config(call.config)
       IN  IF loaded.exc # None
           THEN /\ pc' = "raised"
                /\ exception' = loaded.exc
                /\ UNCHANGED <<rules, ret>>
           ELSE /\ pc' = "constructed"
                /\ rules' = loaded.value
                /\ ret' = "engine"
                /\ UNCHANGED exception
    /\ UNCHANGED <<graph, general_config, all_violations, result, call, history>>

NextLoad == Construct \/ ReadGeneral \/ LoadRules

SpecLoad == InitLoad /\ [][NextLoad]_vars

(***************************************************************************)
(* Vocabulary of the properties, stated without the operators above.       *)
(***************************************************************************)
\* The whole minutes of a value in sixtieths: the integer m nearest to 0 with
\* the value between m and m + 1 minutes (m - 1 and m for a negative value).
WholeMinutes(value) ==
    LET size == IF value >= 0 THEN value ELSE -value
    IN  CHOOSE m \in (-size)..size :
            IF value >= 0
            THEN m * 60 <= value /\ value < (m + 1) * 60
            ELSE (m - 1) * 60 < value /\ value <= m * 60

\* The most severe tier whose condition holds in normal mode, on whole minutes.
NormalTier(thresholds, minutes) ==
    CASE minutes >= thresholds.critical -> "critical"
      [] minutes < thresholds.critical /\ minutes >= thresholds.medium -> "medium"
      [] minutes < thresholds.critical /\ minutes < thresholds.medium
            /\ minutes >= thresholds.low -> "low"
      [] OTHER -> None

\* The rating tiers in ascending order, with the defaults of the thresholds.
RatingTiers ==
    << [key |-> "excellent", default |-> 0, label |-> "VYNIKAJICI"],
       [key |-> "good", default |-> 100, label |-> "DOBRE"],
       [key |-> "acceptable", default |-> 300, label |-> "PRIJATELNE"],
       [key |-> "poor", default |-> 600, label |-> "SPATNE"] >>

RatingThreshold(schedule_rating, i) ==
    IF RatingTiers[i].key \in DOMAIN schedule_rating
    THEN schedule_rating[RatingTiers[i].key] ELSE RatingTiers[i].default

\* The float x is at most the whole number n.
NotAbove(x, n) == x.sixtieths < 60 * n \/ (x.sixtieths = 60 * n /\ x.dev <= 0)

\* The float x is at least the whole number n.
NotBelow(x, n) == x.sixtieths > 60 * n \/ (x.sixtieths = 60 * n /\ x.dev >= 0)

\* The sum of a sequence of floats as sum() takes it: from 0, in the order
\* of the sequence, in float arithmetic.
FloatSum(s) ==
    LET acc[i \in 0..Len(s)] ==
            IF i = 0 THEN float(0) ELSE float_add(acc[i - 1], s[i])
    IN  acc[Len(s)]

\* C1: the rating is the label of the first of excellent, good, acceptable,
\* poor whose threshold the total weight does not exceed (<=, boundaries
\* inclusive), KRITICKE when it exceeds all four; so a weight equal to the
\* good threshold is DOBRE, weight 0 is VYNIKAJICI, and weight 150 under
\* {excellent: 0, good: 100, acceptable: 300} is PRIJATELNE.
C1_RatingByThresholds ==
    (call.op = "_calculate_rating" /\ ret # "pending") =>
        LET w == call.total_weight
            sr == call.schedule_rating
            met == { i \in 1..4 : NotAbove(w, RatingThreshold(sr, i)) }
        IN  /\ met = {} => ret = "KRITICKE"
            /\ \A i \in met : (\A j \in met : i <= j) => ret = RatingTiers[i].label
            /\ (w = float(RatingThreshold(sr, 2))
                    /\ ~NotAbove(w, RatingThreshold(sr, 1)))
                  => ret = "DOBRE"
            /\ (w = float(0) /\ RatingThreshold(sr, 1) = 0) => ret = "VYNIKAJICI"
            /\ (w = float(150) /\ sr = [excellent |-> 0, good |-> 100, acceptable |-> 300])
                  => ret = "PRIJATELNE"

\* C1 witness: a total weight exactly at the good threshold was rated DOBRE.
C1_Witness ==
    /\ call.op = "_calculate_rating"
    /\ ret = "DOBRE"
    /\ call.schedule_rating = [excellent |-> 0, good |-> 100, acceptable |-> 300]
    /\ call.total_weight = float(100)

\* C2: in normal mode the tier is decided on the value truncated to whole
\* minutes: CRITICAL if >= critical, else MEDIUM if >= medium, else LOW if
\* >= low, else none.
C2_NormalModeTier ==
    (call.op = "_get_severity" /\ ~call.reverse /\ ret # "pending") =>
        ret = NormalTier(call.thresholds, WholeMinutes(call.value))

\* C2 witness: a value with a fractional part of a minute, below zero, was
\* truncated to 0 minutes and met the low threshold 0.
C2_Witness ==
    /\ call.op = "_get_severity"
    /\ ~call.reverse
    /\ call.value = -30
    /\ call.thresholds.low = 0
    /\ ret = "low"

(***************************************************************************)
(* Vocabulary of the properties of the rules.                              *)
(***************************************************************************)
\* The moment a time value spells.
Moment(time) == _ensure_datetime(time).value

\* The performances of a list in ascending order of start time, equal start
\* times in list order.
ByStart(performances) ==
    LET n == Len(performances)
        order == CHOOSE p \in [1..n -> 1..n] :
                    \A i, j \in 1..n : i < j =>
                        \/ Moment(performances[p[i]].start_time)
                              < Moment(performances[p[j]].start_time)
                        \/ /\ Moment(performances[p[i]].start_time)
                                = Moment(performances[p[j]].start_time)
                           /\ p[i] < p[j]
    IN  [i \in 1..n |-> performances[order[i]]]

\* The gap, in sixtieths of a minute, between s[i] and its successor.
GapOf(s, i) == Moment(s[i + 1].start_time) - Moment(s[i].end_time)

\* analyze_schedule has extended all_violations with the output of rule k.
Ran(k) ==
    \/ pc \in {"aggregate", "returned"}
    \/ k <= 3 /\ pc = "rule4"
    \/ k <= 2 /\ pc = "rule3"
    \/ k = 1 /\ pc = "rule2"

\* The violations of a rule on an entity, in order of emission.
ViolationsOf(rule_name, entity_id) ==
    SelectSeq(all_violations,
              LAMBDA v : v.rule_name = rule_name /\ v.entity_id = entity_id)

\* The juries of the graph whose performances the engine can get at: those
\* get_juries gives.  (The juries fill_with_data puts in a ScheduleGraph hold
\* competitions, not performances, and the class has no get_juries.)
JuriesRead(g) == IF g.has_get_juries THEN g.juries ELSE <<>>

\* The entities rule k walks that a violation names: a violation names its
\* entity by id, so the violations of an entity are told from those of the
\* others when no other entity of the list has its id (a graph filled twice
\* holds every entity twice).
EntitiesOf(k) ==
    LET entities == IF k = 3 THEN JuriesRead(graph) ELSE graph.competitors
    IN  { entities[i] : i \in { j \in DOMAIN entities :
                                  \A h \in DOMAIN entities :
                                      entities[h].id = entities[j].id => h = j } }

\* The maximal runs <<a, b>> of s: successive gaps inside under 10 minutes,
\* no such gap to the performance before a or after b.
MaximalRuns(s) ==
    { run \in (1..Len(s)) \X (1..Len(s)) :
        /\ run[1] <= run[2]
        /\ \A i \in run[1]..(run[2] - 1) : GapOf(s, i) < 10 * 60
        /\ run[1] = 1 \/ GapOf(s, run[1] - 1) >= 10 * 60
        /\ run[2] = Len(s) \/ GapOf(s, run[2]) >= 10 * 60 }

RunDuration(s, run) ==
    SumSeq([i \in 1..(run[2] - run[1] + 1) |-> s[run[1] + i - 1].duration])

\* What a violation of a continuous-block rule says of its block.
BlockSummary(v) ==
    [start_time |-> v.details.start_time, end_time |-> v.details.end_time,
     duration |-> v.details.duration_minutes, severity |-> v.severity]

RunSummary(thresholds, s, run) ==
    [start_time |-> Moment(s[run[1]].start_time),
     end_time |-> Moment(s[run[2]].end_time),
     duration |-> RunDuration(s, run),
     severity |-> NormalTier(thresholds, RunDuration(s, run))]

\* The summaries of the maximal runs of s that reach a tier, in time order.
ViolatingRuns(thresholds, s) ==
    LET runs == MaximalRuns(s)
        ordered == [r \in 1..Cardinality(runs) |->
                       CHOOSE x \in runs :
                           Cardinality({ y \in runs : y[1] < x[1] }) = r - 1]
    IN  SelectSeq([r \in DOMAIN ordered |-> RunSummary(thresholds, s, ordered[r])],
                  LAMBDA x : x.severity # None)

\* The three performances 09:00-09:20, 09:25-09:45, 10:10-10:30 of 20 minutes.
IsDancingScenario(performances) ==
    /\ Len(performances) = 3
    /\ { <<Moment(performances[i].start_time), Moment(performances[i].end_time),
           performances[i].duration>> : i \in 1..Len(performances) }
         = { <<HMS(9, 0, 0), HMS(9, 20, 0), 20>>, <<HMS(9, 25, 0), HMS(9, 45, 0), 20>>,
             <<HMS(10, 10, 0), HMS(10, 30, 0), 20>> }

\* A pair of performances the costume-change rule has to examine.
EligiblePair(disciplines, first, second) ==
    /\ first.competition.linked /\ second.competition.linked
    /\ {first.competition.discipline, second.competition.discipline} \subseteq disciplines
    /\ first.competition.discipline # second.competition.discipline

\* The tier of the measured value itself, in reverse mode.
MeasuredReverseTier(thresholds, value) ==
    CASE value <= thresholds.critical * 60 -> "critical"
      [] value > thresholds.critical * 60 /\ value <= thresholds.medium * 60 -> "medium"
      [] value > thresholds.critical * 60 /\ value > thresholds.medium * 60
            /\ value <= thresholds.low * 60 -> "low"
      [] OTHER -> None

RuleIndex(rule_name) == CHOOSE k \in 1..4 : RuleNames[k] = rule_name

\* The excess a violation was scored with, a float.
ExcessOf(v) ==
    IF v.rule_name = "CostumeChangeTime" THEN v.details.shortage_minutes
    ELSE v.details.excess_minutes

BaseWeightOf(v) ==
    LET weights == rules[RuleIndex(v.rule_name)].weights
    IN  CASE v.severity = "critical" -> weights.base_critical
          [] v.severity = "medium" -> weights.base_medium
          [] v.severity = "low" -> weights.base_low

\* C3 (as specified): every costume-change violation carries the tier of its
\* measured gap in reverse mode, CRITICAL if gap <= critical, else MEDIUM if
\* gap <= medium, else LOW if gap <= low, also when the gap is not a whole
\* number of minutes.
C3_ReverseTierOfMeasuredGap ==
    \A i \in DOMAIN all_violations :
        all_violations[i].rule_name = "CostumeChangeTime" =>
            all_violations[i].severity
                = MeasuredReverseTier(rules[2].thresholds,
                                      all_violations[i].details.gap_minutes)

\* C4 (as specified): every violation's excess is >= 0 and its weight is
\* base_weight[severity] + excess * coefficient_per_minute, so at least
\* base_weight[severity].
C4_ExcessNonNegative ==
    \A i \in DOMAIN all_violations :
        /\ NotBelow(ExcessOf(all_violations[i]), 0)
        /\ all_violations[i].weight
              = float_add(float(BaseWeightOf(all_violations[i])),
                          float_mul(ExcessOf(all_violations[i]),
                                    rules[RuleIndex(all_violations[i].rule_name)]
                                        .weights.coefficient_per_minute))
        /\ NotBelow(all_violations[i].weight, BaseWeightOf(all_violations[i]))

\* C5: every violation of the continuous-dancing and continuous-judging rules
\* reports one maximal run of the entity's performances in start order whose
\* successive gaps are under 10 minutes: its duration is the sum of the run's
\* durations, and no run is reported twice. With thresholds 40/60/90, the
\* performances 09:00-09:20, 09:25-09:45, 10:10-10:30 of 20 minutes give exactly
\* one violation, LOW, of 40 minutes.
C5_BlocksAreMaximalRuns ==
    /\ \A k \in {1, 3} : Ran(k) =>
          \A e \in EntitiesOf(k) :
              /\ \A i \in DOMAIN ViolationsOf(RuleNames[k], e.id) :
                    \E run \in MaximalRuns(ByStart(e.performances)) :
                        BlockSummary(ViolationsOf(RuleNames[k], e.id)[i])
                            = RunSummary(rules[k].thresholds,
                                         ByStart(e.performances), run)
              /\ \A i, j \in DOMAIN ViolationsOf(RuleNames[k], e.id) :
                    i < j =>
                        ViolationsOf(RuleNames[k], e.id)[i].details.start_time
                            < ViolationsOf(RuleNames[k], e.id)[j].details.start_time
    /\ (Ran(1) /\ rules[1].enabled
           /\ rules[1].thresholds = [critical |-> 90, medium |-> 60, low |-> 40]) =>
          \A e \in EntitiesOf(1) :
              IsDancingScenario(e.performances) =>
                  /\ Len(ViolationsOf(RuleNames[1], e.id)) = 1
                  /\ ViolationsOf(RuleNames[1], e.id)[1].severity = "low"
                  /\ ViolationsOf(RuleNames[1], e.id)[1].details.duration_minutes = 40

\* The dancing rule has run on the scenario of C5 and reported its block.
C5_Witness ==
    /\ Ran(1) /\ rules[1].enabled
    /\ \E e \in EntitiesOf(1) :
          /\ IsDancingScenario(e.performances)
          /\ Len(ViolationsOf(RuleNames[1], e.id)) = 1

\* C6: a gap of exactly 10 minutes ends a block: the violations of an entity
\* with such a gap are those of the performances up to the gap followed by
\* those of the performances after it.
C6_TenMinuteGapBreaks ==
    \A k \in {1, 3} : (Ran(k) /\ rules[k].enabled) =>
        \A e \in EntitiesOf(k) :
            \A i \in 1..(Len(e.performances) - 1) :
                GapOf(ByStart(e.performances), i) = 10 * 60 =>
                    [j \in DOMAIN ViolationsOf(RuleNames[k], e.id) |->
                        BlockSummary(ViolationsOf(RuleNames[k], e.id)[j])]
                      = ViolatingRuns(rules[k].thresholds,
                                      SubSeq(ByStart(e.performances), 1, i))
                        \o ViolatingRuns(rules[k].thresholds,
                                         SubSeq(ByStart(e.performances), i + 1,
                                                Len(e.performances)))

\* A rule has run on an entity whose performances have a gap of exactly 10
\* minutes, and reported a block that ends at the gap.
C6_Witness ==
    \E k \in {1, 3} :
        /\ Ran(k) /\ rules[k].enabled
        /\ \E e \in EntitiesOf(k) :
              \E i \in 1..(Len(e.performances) - 1) :
                  /\ GapOf(ByStart(e.performances), i) = 10 * 60
                  /\ \E j \in DOMAIN ViolationsOf(RuleNames[k], e.id) :
                        ViolationsOf(RuleNames[k], e.id)[j].details.end_time
                            = Moment(ByStart(e.performances)[i].end_time)

\* C7: the costume-change rule reports only consecutive pairs (in start order)
\* whose performances both have a competition, both disciplines listed in the
\* rule's disciplines, and different disciplines; no pair is reported twice.
C7_OnlyEligiblePairs ==
    Ran(2) =>
        \A c \in EntitiesOf(2) :
            /\ \A i \in DOMAIN ViolationsOf(RuleNames[2], c.id) :
                  \E j \in 1..(Len(c.performances) - 1) :
                      /\ EligiblePair(rules[2].disciplines,
                                      ByStart(c.performances)[j],
                                      ByStart(c.performances)[j + 1])
                      /\ ViolationsOf(RuleNames[2], c.id)[i].details.from_time
                            = Moment(ByStart(c.performances)[j].end_time)
                      /\ ViolationsOf(RuleNames[2], c.id)[i].details.to_time
                            = Moment(ByStart(c.performances)[j + 1].start_time)
                      /\ ViolationsOf(RuleNames[2], c.id)[i].details.from_discipline
                            = ByStart(c.performances)[j].competition.discipline
                      /\ ViolationsOf(RuleNames[2], c.id)[i].details.to_discipline
                            = ByStart(c.performances)[j + 1].competition.discipline
            /\ \A i, j \in DOMAIN ViolationsOf(RuleNames[2], c.id) :
                  i < j =>
                      ViolationsOf(RuleNames[2], c.id)[i].details.to_time
                          < ViolationsOf(RuleNames[2], c.id)[j].details.to_time

\* The costume-change rule has run on a competitor with a reported pair and
\* with a consecutive pair of one discipline less than 5 minutes apart.
C7_Witness ==
    /\ Ran(2) /\ rules[2].enabled
    /\ \E c \in EntitiesOf(2) :
          /\ Len(ViolationsOf(RuleNames[2], c.id)) > 0
          /\ \E j \in 1..(Len(c.performances) - 1) :
                /\ ~EligiblePair(rules[2].disciplines, ByStart(c.performances)[j],
                                 ByStart(c.performances)[j + 1])
                /\ ByStart(c.performances)[j].competition.linked
                /\ ByStart(c.performances)[j + 1].competition.linked
                /\ GapOf(ByStart(c.performances), j) < 5 * 60

\* What a costume-change violation says of its pair.
\* (gap in sixtieths of a minute)
CostumeSummary(v) ==
    [from_time |-> v.details.from_time, to_time |-> v.details.to_time,
     gap |-> v.details.gap_minutes, severity |-> v.severity]

\* The eligible pairs of s whose measured gap reaches a tier in reverse mode,
\* in order.
ShortCostumeGaps(config, s) ==
    SelectSeq([j \in 1..(Len(s) - 1) |->
                  [from_time |-> Moment(s[j].end_time),
                   to_time |-> Moment(s[j + 1].start_time),
                   gap |-> GapOf(s, j),
                   severity |-> IF EligiblePair(config.disciplines, s[j], s[j + 1])
                                THEN MeasuredReverseTier(config.thresholds, GapOf(s, j))
                                ELSE None]],
              LAMBDA x : x.severity # None)

\* C8 (as specified): the gap of an eligible pair is next.start_time -
\* current.end_time in minutes, classified in reverse mode against the rule's
\* thresholds; a pair is reported exactly when a tier is reached, with that
\* tier. With thresholds 5/10/15 an eligible pair 4 minutes apart gives one
\* CRITICAL violation.
C8_CostumeGapReverseMode ==
    (Ran(2) /\ rules[2].enabled) =>
        \A c \in EntitiesOf(2) :
            /\ [i \in DOMAIN ViolationsOf(RuleNames[2], c.id) |->
                   CostumeSummary(ViolationsOf(RuleNames[2], c.id)[i])]
                 = ShortCostumeGaps(rules[2], ByStart(c.performances))
            /\ \A j \in 1..(Len(c.performances) - 1) :
                  ( /\ rules[2].thresholds = [critical |-> 5, medium |-> 10, low |-> 15]
                    /\ EligiblePair(rules[2].disciplines, ByStart(c.performances)[j],
                                    ByStart(c.performances)[j + 1])
                    /\ GapOf(ByStart(c.performances), j) = 4 * 60 ) =>
                      \E i \in DOMAIN ViolationsOf(RuleNames[2], c.id) :
                          /\ ViolationsOf(RuleNames[2], c.id)[i].details.from_time
                                = Moment(ByStart(c.performances)[j].end_time)
                          /\ ViolationsOf(RuleNames[2], c.id)[i].details.gap_minutes = 4 * 60
                          /\ ViolationsOf(RuleNames[2], c.id)[i].severity = "critical"

\* What a gap violation says of its pair (gap in sixtieths of a minute).
GapSummary(v) ==
    [first_performance_end |-> v.details.first_performance_end,
     second_performance_start |-> v.details.second_performance_start,
     gap |-> v.details.gap_minutes, severity |-> v.severity]

\* The consecutive pairs of s whose gap, cut to whole minutes, reaches a tier
\* in normal mode, in order.
LongGaps(config, s) ==
    SelectSeq([j \in 1..(Len(s) - 1) |->
                  [first_performance_end |-> Moment(s[j].end_time),
                   second_performance_start |-> Moment(s[j + 1].start_time),
                   gap |-> GapOf(s, j),
                   severity |-> NormalTier(config.thresholds,
                                           WholeMinutes(GapOf(s, j)))]],
              LAMBDA x : x.severity # None)

\* C9: the gap rule takes every consecutive pair of a competitor's
\* performances in start order, whatever the competitions and disciplines,
\* computes next.start_time - current.end_time in minutes, classifies it in
\* normal mode, and reports the pair exactly when a tier is reached; a
\* competitor with fewer than two performances is skipped.
C9_GapBetweenPerformances ==
    (Ran(4) /\ rules[4].enabled) =>
        \A c \in EntitiesOf(4) :
            /\ [i \in DOMAIN ViolationsOf(RuleNames[4], c.id) |->
                   GapSummary(ViolationsOf(RuleNames[4], c.id)[i])]
                 = LongGaps(rules[4], ByStart(c.performances))
            /\ Len(c.performances) < 2 => ViolationsOf(RuleNames[4], c.id) = <<>>

\* The gap rule has run on a competitor whose performances are not listed in
\* start order and include one without a competition, and reported a pair.
C9_Witness ==
    /\ Ran(4) /\ rules[4].enabled
    /\ \E c \in EntitiesOf(4) :
          /\ ByStart(c.performances) # c.performances
          /\ \E j \in DOMAIN c.performances : ~c.performances[j].competition.linked
          /\ Len(ViolationsOf(RuleNames[4], c.id)) > 0

\* The step of analyze_schedule that runs rule k.
RuleStep(k) == pc = CASE k = 1 -> "rule1" [] k = 2 -> "rule2"
                      [] k = 3 -> "rule3" [] k = 4 -> "rule4"

\* No violation of a disabled rule is collected or reported.
DisabledRulesSilent ==
    \A k \in 1..4 : ~rules[k].enabled =>
        /\ \A i \in DOMAIN all_violations : all_violations[i].rule_name # RuleNames[k]
        /\ pc = "returned" =>
              /\ RuleNames[k] \notin DOMAIN result.violations_by_rule
              /\ \A i \in DOMAIN result.violations :
                    result.violations[i].rule_name # RuleNames[k]
              /\ \A severity \in DOMAIN result.violations_by_severity :
                    \A i \in DOMAIN result.violations_by_severity[severity] :
                        result.violations_by_severity[severity][i].rule_name
                            # RuleNames[k]
              /\ result.total_weight
                    = FloatSum([i \in DOMAIN all_violations |->
                                  IF all_violations[i].rule_name = RuleNames[k]
                                  THEN float(0) ELSE all_violations[i].weight])

\* The step of a disabled rule adds nothing and raises nothing.
DisabledRuleStep ==
    \A k \in 1..4 : (RuleStep(k) /\ ~rules[k].enabled) =>
        /\ all_violations' = all_violations
        /\ exception' = exception
        /\ pc' # "raised"
        /\ graph' = graph

\* C10: a rule whose enabled flag is false returns no violations without
\* looking at the schedule: its step leaves the collected violations as they
\* are and raises nothing, whatever the graph holds, and no violation bearing
\* its name is ever collected or reported.
C10_DisabledRuleReturnsEmpty ==
    [](DisabledRulesSilent) /\ [][DisabledRuleStep]_vars

\* The disabled dancing rule has been run on a graph with a competitor of two
\* or more performances, one with a start time no format parses, and the
\* analysis went on.
C10_Witness ==
    /\ ~rules[1].enabled /\ pc = "rule2"
    /\ \E c \in EntitiesOf(1) :
          /\ Len(c.performances) >= 2
          /\ \E j \in DOMAIN c.performances :
                _ensure_datetime(c.performances[j].start_time).exc # None

(***************************************************************************)
(* Properties of the inference engine.                                     *)
(***************************************************************************)
\* What the check of rule k gives on the graph, when it returns.
RuleOutput(k) ==
    CASE k = 1 -> MaxContinuousDancingRule_check(rules[1], graph).violations
      [] k = 2 -> CostumeChangeTimeRule_check(rules[2], graph).violations
      [] k = 3 -> MaxContinuousJudgingRule_check(rules[3], graph).violations
      [] k = 4 -> MaxGapBetweenPerformancesRule_check(rules[4], graph).violations

\* C11: the violation list of the result is the output of MaxContinuousDancing
\* followed by that of CostumeChangeTime, of MaxContinuousJudging and of
\* MaxGapBetweenPerformances, each in the order the rule produced it.
C11_ViolationsInRuleOrder ==
    pc = "returned" =>
        result.violations
            = RuleOutput(1) \o RuleOutput(2) \o RuleOutput(3) \o RuleOutput(4)

\* A result with violations of three rules, two of them of one rule.
C11_Witness ==
    /\ pc = "returned"
    /\ Cardinality({ result.violations[i].rule_name :
                        i \in DOMAIN result.violations }) >= 3
    /\ \E i, j \in DOMAIN result.violations :
          i # j /\ result.violations[i].rule_name = result.violations[j].rule_name

\* C12: the total weight of the result is the sum of the weights of the
\* violations of its list (the sum sum() gives: in list order, in float
\* arithmetic), 0 when the list is empty.
C12_TotalWeightIsSum ==
    pc = "returned" =>
        /\ result.total_weight
              = FloatSum([i \in DOMAIN result.violations |-> result.violations[i].weight])
        /\ result.violations = <<>> => result.total_weight = float(0)

\* A result of several violations, one of them with a weight that is not a
\* whole number of sixtieths (a float that was rounded).
C12_Witness ==
    /\ pc = "returned"
    /\ Len(result.violations) >= 3
    /\ \E i \in DOMAIN result.violations : result.violations[i].weight.dev # 0

\* Each bucket of the grouping by severity holds exactly the violations of
\* its severity, in the order of the list, and the sizes add up.
SeverityBucketsExact ==
    /\ \A severity \in DOMAIN result.violations_by_severity :
          result.violations_by_severity[severity]
              = SelectSeq(result.violations, LAMBDA v : v.severity = severity)
    /\ \A i \in DOMAIN result.violations :
          result.violations[i].severity \in DOMAIN result.violations_by_severity
    /\ \A i \in DOMAIN result.violations :
          \E j \in DOMAIN result.violations_by_severity[result.violations[i].severity] :
              result.violations_by_severity[result.violations[i].severity][j]
                  = result.violations[i]

\* C13 (as specified): the grouping by severity has four buckets, one per
\* Severity value, all present even when empty, each holding exactly the
\* violations of its severity.
C13_FourSeverityBuckets ==
    pc = "returned" =>
        /\ Cardinality(DOMAIN result.violations_by_severity) = 4
        /\ { "critical", "medium", "low" } \subseteq DOMAIN result.violations_by_severity
        /\ SeverityBucketsExact

\* C13 (amended): the grouping by severity has three buckets, one per Severity
\* value (critical, medium, low), all present even when empty; each holds
\* exactly the violations of its severity, so the sizes sum to the number of
\* violations.
C13_ThreeSeverityBuckets ==
    pc = "returned" =>
        /\ DOMAIN result.violations_by_severity = { "critical", "medium", "low" }
        /\ SeverityBucketsExact
        /\ Len(result.violations_by_severity["critical"])
             + Len(result.violations_by_severity["medium"])
             + Len(result.violations_by_severity["low"])
             = Len(result.violations)

\* A result with violations, whose grouping has an empty bucket and a bucket
\* of two or more.
C13_Witness ==
    /\ pc = "returned"
    /\ \E severity \in DOMAIN result.violations_by_severity :
          result.violations_by_severity[severity] = <<>>
    /\ \E severity \in DOMAIN result.violations_by_severity :
          Len(result.violations_by_severity[severity]) >= 2

\* C14: the grouping by rule has a key for a rule name exactly when that rule
\* produced a violation; the list under the key is that rule's violations, so
\* the list sizes sum to the number of violations.
C14_ByRuleKeysOnlyForViolatedRules ==
    pc = "returned" =>
        /\ DOMAIN result.violations_by_rule \subseteq SeqToSet(RuleNames)
        /\ \A k \in 1..4 :
              /\ RuleNames[k] \in DOMAIN result.violations_by_rule
                    <=> RuleOutput(k) # <<>>
              /\ RuleNames[k] \in DOMAIN result.violations_by_rule
                    => result.violations_by_rule[RuleNames[k]] = RuleOutput(k)
        /\ SumSeq([k \in 1..4 |->
                      IF RuleNames[k] \in DOMAIN result.violations_by_rule
                      THEN Len(result.violations_by_rule[RuleNames[k]]) ELSE 0])
             = Len(result.violations)

\* A result whose grouping by rule has two keys or more, one of them with two
\* violations, and lacks the key of an enabled rule.
C14_Witness ==
    /\ pc = "returned"
    /\ Cardinality(DOMAIN result.violations_by_rule) >= 2
    /\ \E name \in DOMAIN result.violations_by_rule :
          Len(result.violations_by_rule[name]) >= 2
    /\ \E k \in 1..4 :
          rules[k].enabled /\ RuleNames[k] \notin DOMAIN result.violations_by_rule

\* The totals and counts of a result.
Summary(r) ==
    [total_weight |-> r.total_weight,
     rating |-> r.rating,
     violations |-> Len(r.violations),
     by_severity |-> [severity \in DOMAIN r.violations_by_severity |->
                         Len(r.violations_by_severity[severity])],
     by_rule |-> [rule_name \in DOMAIN r.violations_by_rule |->
                     Len(r.violations_by_rule[rule_name])]]

\* C15: a further call of analyze on the same engine and configuration
\* returns the total weight, rating, violation count and group counts of
\* every call before it that was given the graph as it is now.
C15_AnalyzeTwiceSameSummary ==
    pc = "returned" =>
        \A i \in DOMAIN history :
            (history[i].graph = graph /\ history[i].result # NoResult) =>
                Summary(history[i].result) = Summary(result)

\* A second call on the same graph has returned a result with violations.
C15_Witness ==
    /\ pc = "returned"
    /\ Len(history) >= 1
    /\ history[1].graph = graph
    /\ history[1].result # NoResult
    /\ Len(result.violations) >= 2

\* The exception the check of rule k raises on the graph, None when it returns.
RuleExc(k) ==
    CASE k = 1 -> MaxContinuousDancingRule_check(rules[1], graph).exc
      [] k = 2 -> CostumeChangeTimeRule_check(rules[2], graph).exc
      [] k = 3 -> MaxContinuousJudgingRule_check(rules[3], graph).exc
      [] k = 4 -> MaxGapBetweenPerformancesRule_check(rules[4], graph).exc

\* Once an exception has left analyze_schedule there is no result.
RaisedMeansNoResult ==
    pc = "raised" => (result = NoResult /\ exception # None)

\* A step on a rule whose check raises ends analyze_schedule with that
\* exception; the call does not go on after it: what follows is the caller's
\* (filling the graph, a new call), and there is still no result.
RaisePropagates ==
    /\ \A k \in 1..4 : (RuleStep(k) /\ RuleExc(k) # None) =>
          /\ pc' = "raised"
          /\ exception' = RuleExc(k)
          /\ result' = NoResult
    /\ pc = "raised" =>
          /\ pc' \in {"filled", "rule1"}
          /\ result' = NoResult

\* C16: an exception of a rule's check is not caught by analyze: it reaches
\* the caller as raised, and no result is returned, not even one with the
\* violations of the rules that ran before.
C16_RuleExceptionPropagates ==
    [](RaisedMeansNoResult) /\ [][RaisePropagates]_vars

\* An exception has left analyze_schedule after earlier rules had collected
\* violations.
C16_Witness ==
    /\ pc = "raised"
    /\ exception = "ValueError"
    /\ all_violations # <<>>
    /\ result = NoResult

\* A time value that is a string in none of the four formats.
Malformed(time) ==
    time.type = "str" /\ \A i \in DOMAIN TimeFormats : time.fmt # TimeFormats[i]

\* Some performance of some competitor or jury of the graph has a malformed
\* start or end time.
HasMalformedTime(g) ==
    \/ \E c \in DOMAIN g.competitors : \E i \in DOMAIN g.competitors[c].performances :
          \/ Malformed(g.competitors[c].performances[i].start_time)
          \/ Malformed(g.competitors[c].performances[i].end_time)
    \/ \E j \in DOMAIN JuriesRead(g) : \E i \in DOMAIN JuriesRead(g)[j].performances :
          /\ IsPerformance(JuriesRead(g)[j].performances[i])
          /\ \/ Malformed(JuriesRead(g)[j].performances[i].start_time)
             \/ Malformed(JuriesRead(g)[j].performances[i].end_time)

\* C17 (as specified): with all four rules enabled, a graph with a malformed
\* start or end time makes analyze abort with an error; it never gets to
\* building a result.
C17_MalformedTimeAborts ==
    ((\A k \in 1..4 : rules[k].enabled) /\ HasMalformedTime(graph)) =>
        pc \notin {"aggregate", "returned"}

(***************************************************************************)
(* Properties of the construction of the engine.                           *)
(***************************************************************************)
\* The four rule sections a rules configuration has to have.
RequiredSections ==
    {"max_continuous_dancing", "costume_change_time", "max_continuous_judging",
     "max_gap_between_performances"}

\* The construction is over: there is an engine, or an exception left it.
ConstructionOver == pc \in {"constructed", "raised"}

\* No engine comes out of a file that lacks a required section: the
\* construction ends with an exception and without rules.
NoEngineWithoutSection ==
    (call.op = "InferenceEngine" /\ ConstructionOver
        /\ ~(RequiredSections \subseteq DOMAIN call.config)) =>
            /\ pc = "raised"
            /\ exception = "KeyError"
            /\ rules = <<>>
            /\ ret # "engine"

\* Nothing follows the exception.
NothingAfterRaise == pc # "raised"

\* C18: loading the engine fails, before any analysis can run, when one of
\* the four rule sections is absent from the rules configuration.
C18_MissingSectionFailsLoad ==
    [](NoEngineWithoutSection) /\ [][NothingAfterRaise]_vars

\* The construction has failed on a file that lacks only the last rule
\* section read.
C18_Witness ==
    /\ call.op = "InferenceEngine"
    /\ pc = "raised"
    /\ DOMAIN call.config
         = (RequiredSections \cup {"general"}) \ {"max_gap_between_performances"}

\* C19 (as specified): a rule section that lacks a threshold key or a weight
\* key makes the construction of the engine fail; no engine is constructed
\* from it.
C19_MissingKeyFailsLoad ==
    (call.op = "InferenceEngine" /\ ConstructionOver
        /\ \E section \in RequiredSections \cap DOMAIN call.config :
              \/ ~(ThresholdKeys \subseteq DOMAIN call.config[section].thresholds)
              \/ ~(WeightKeys \subseteq DOMAIN call.config[section].weights)) =>
            (pc = "raised" /\ ret # "engine")

(***************************************************************************)
(* Monotonicity of the classification.                                     *)
(***************************************************************************)
\* none < LOW < MEDIUM < CRITICAL.
SeverityRank(severity) ==
    IF severity = "critical" THEN 3
    ELSE IF severity = "medium" THEN 2
    ELSE IF severity = "low" THEN 1
    ELSE 0

\* The values that must not be classified more severely than value: the
\* smaller ones in normal mode, the larger ones in reverse mode.
MilderValues(value, reverse) ==
    { other \in ValueChoices :
        IF reverse THEN other >= value ELSE other <= value }

\* The thresholds do not descend from critical to low in the mode's direction.
Misordered(thresholds, reverse) ==
    IF reverse THEN ~(thresholds.critical <= thresholds.medium
                        /\ thresholds.medium <= thresholds.low)
               ELSE ~(thresholds.critical >= thresholds.medium
                        /\ thresholds.medium >= thresholds.low)

\* C20: for any fixed thresholds the severity returned for a value is at
\* least that of every smaller value in normal mode, and at least that of
\* every larger value in reverse mode.
C20_ClassifyMonotonic ==
    (call.op = "_get_severity" /\ ret # "pending") =>
        \A other \in MilderValues(call.value, call.reverse) :
            SeverityRank(ret)
                >= SeverityRank(_get_severity(call.thresholds, other,
                                              call.reverse))

\* A call on misordered thresholds has returned a tier below critical while
\* some milder value is classified too.
C20_Witness ==
    /\ call.op = "_get_severity"
    /\ ret \in {"low", "medium"}
    /\ Misordered(call.thresholds, call.reverse)
    /\ \E other \in MilderValues(call.value, call.reverse) :
          /\ other # call.value
          /\ _get_severity(call.thresholds, other, call.reverse) # None

(***************************************************************************)
(* The blocks of the continuous-block rules.                               *)
(***************************************************************************)
\* The entities whose performances rule k (1 or 3) walks: the dancing rule
\* passes over a competitor with fewer than 2 performances, the judging rule
\* over a jury with none.
WalkedEntities(k) ==
    { e \in EntitiesOf(k) :
        Len(e.performances) >= (IF k = 1 THEN 2 ELSE 1) }

\* What rule k reported of the blocks of entity e, in order of emission.
ReportedBlocks(k, e) ==
    [j \in DOMAIN ViolationsOf(RuleNames[k], e.id) |->
        BlockSummary(ViolationsOf(RuleNames[k], e.id)[j])]

\* C21: for an entity a continuous-block rule walks, every maximal continuous
\* block is evaluated exactly once, the last one included: the rule reports,
\* in time order, exactly the maximal blocks whose duration reaches a tier,
\* blocks of one performance among them, and so at most one violation per
\* maximal block.
C21_EveryBlockEvaluatedOnce ==
    \A k \in {1, 3} : (Ran(k) /\ rules[k].enabled) =>
        \A e \in WalkedEntities(k) :
            /\ ReportedBlocks(k, e)
                  = ViolatingRuns(rules[k].thresholds, ByStart(e.performances))
            /\ Len(ViolationsOf(RuleNames[k], e.id))
                  <= Cardinality(MaximalRuns(ByStart(e.performances)))

\* A rule has reported the only block of an entity with several performances
\* and no break, and a rule has reported a block of a single performance.
C21_Witness ==
    /\ \E k \in {1, 3} :
          /\ Ran(k) /\ rules[k].enabled
          /\ \E e \in WalkedEntities(k) :
                /\ Len(e.performances) >= 2
                /\ MaximalRuns(ByStart(e.performances)) = {<<1, Len(e.performances)>>}
                /\ Len(ViolationsOf(RuleNames[k], e.id)) = 1
    /\ \E k \in {1, 3} :
          /\ Ran(k) /\ rules[k].enabled
          /\ \E e \in WalkedEntities(k) :
                \E run \in MaximalRuns(ByStart(e.performances)) :
                    /\ run[1] = run[2]
                    /\ \E j \in DOMAIN ReportedBlocks(k, e) :
                          ReportedBlocks(k, e)[j]
                              = RunSummary(rules[k].thresholds,
                                           ByStart(e.performances), run)

\* C22 (as specified): in the continuous-dancing and the continuous-judging
\* rule an entity with fewer than 2 performances is passed over and gets no
\* violation, whatever the duration of its single performance.
C22_FewerThanTwoSkipped ==
    \A k \in {1, 3} : Ran(k) =>
        \A e \in EntitiesOf(k) :
            Len(e.performances) < 2 => ViolationsOf(RuleNames[k], e.id) = <<>>

(***************************************************************************)
(* Independence of the order of an entity's performance collection.        *)
(***************************************************************************)
\* The orders a performance collection can be handed over in.
Reorderings(performances) ==
    LET n == Len(performances)
    IN  { [i \in 1..n |-> performances[q[i]]] :
            q \in { f \in [1..n -> 1..n] : \A i, j \in 1..n : i # j => f[i] # f[j] } }

\* Every start time of the collection is a time, and no two are the same.
DistinctStarts(performances) ==
    /\ \A i \in DOMAIN performances :
          /\ IsPerformance(performances[i])
          /\ _ensure_datetime(performances[i].start_time).exc = None
    /\ \A i, j \in DOMAIN performances :
          i # j => Moment(performances[i].start_time)
                     # Moment(performances[j].start_time)

\* The graphs that differ from g in the order of the entities' collections.
Reordered(g) ==
    LET AllOrders(entities) ==
            LET upto[n \in 0..Len(entities)] ==
                    IF n = 0 THEN { <<>> }
                    ELSE { Append(before, r) :
                             before \in upto[n - 1],
                             r \in Reorderings(entities[n].performances) }
            IN  upto[Len(entities)]
    IN  { [g EXCEPT !.competitors = [i \in DOMAIN g.competitors |->
                                       [g.competitors[i] EXCEPT !.performances = c[i]]],
                    !.juries = [i \in DOMAIN g.juries |->
                                  [g.juries[i] EXCEPT !.performances = j[i]]]] :
            c \in AllOrders(g.competitors),
            j \in IF g.has_get_juries THEN AllOrders(g.juries)
                  ELSE { [i \in DOMAIN g.juries |-> g.juries[i].performances] } }

\* The violations analyze_schedule holds from rule k.
CollectedFrom(k) ==
    SelectSeq(all_violations, LAMBDA v : v.rule_name = RuleNames[k])

\* The start times of every entity of the graph are distinct times.
GraphHasDistinctStarts ==
    /\ \A i \in DOMAIN graph.competitors :
          DistinctStarts(graph.competitors[i].performances)
    /\ \A i \in DOMAIN JuriesRead(graph) :
          DistinctStarts(JuriesRead(graph)[i].performances)

\* C23: the rules do not rely on the order of an entity's performance
\* collection: when the start times of each entity are pairwise distinct,
\* every rule gives on every reordering of the collections the violations,
\* with severities and weights, that it gave on the graph analysed, and a rule
\* that raised raises the same on every reordering.
C23_OrderOfCollectionIrrelevant ==
    GraphHasDistinctStarts =>
        /\ pc = "aggregate" =>
              \A g \in Reordered(graph) : \A k \in 1..4 :
                  RuleCheck(k, g) = Returned(CollectedFrom(k))
        /\ pc = "raised" =>
              \A g \in Reordered(graph) :
                  \E k \in 1..4 :
                      /\ RuleCheck(k, g).exc = exception
                      /\ \A j \in 1..(k - 1) :
                            RuleCheck(j, g) = Returned(CollectedFrom(j))

\* The four rules have run on a competitor whose three performances are not
\* listed in start order, and two of the rules reported violations of it.
C23_Witness ==
    /\ pc = "aggregate"
    /\ GraphHasDistinctStarts
    /\ \E i \in DOMAIN graph.competitors :
          /\ Len(graph.competitors[i].performances) = 3
          /\ graph.competitors[i].performances
                # ByStart(graph.competitors[i].performances)
          /\ ViolationsOf(RuleNames[1], graph.competitors[i].id) # <<>>
          /\ ViolationsOf(RuleNames[4], graph.competitors[i].id) # <<>>

(***************************************************************************)
(* What analyze_schedule leaves alone.                                     *)
(***************************************************************************)
\* analyze_schedule is running: it has been called and has neither returned
\* nor raised.
Analysing == pc \in {"rule1", "rule2", "rule3", "rule4", "aggregate"}

\* A step of the analysis leaves the graph, the rules and the rating
\* thresholds as they were.
OnlyReads ==
    Analysing =>
        /\ graph' = graph
        /\ rules' = rules
        /\ general_config' = general_config

\* C24: analyze_schedule only reads: no step of it, whether the call returns
\* or an exception leaves it, changes the graph (its competitor and jury
\* sequences, the content and order of an entity's performance collection, a
\* performance's fields), the loaded rules or the rating thresholds.
C24_AnalyzeOnlyReads == [][OnlyReads]_vars

\* analyze_schedule has returned violations of a competitor whose performances
\* are not listed in start order, so that the rules sorted them.
C24_Witness ==
    /\ pc = "returned"
    /\ result # NoResult
    /\ \E i \in DOMAIN graph.competitors :
          /\ DistinctStarts(graph.competitors[i].performances)
          /\ graph.competitors[i].performances
                # ByStart(graph.competitors[i].performances)
          /\ \E j \in DOMAIN all_violations :
                all_violations[j].entity_id = graph.competitors[i].id

(***************************************************************************)
(* Independence of the rules.                                              *)
(***************************************************************************)
\* The orders the four checks can be run in.
CheckOrders ==
    { order \in [1..4 -> 1..4] : \A i, j \in 1..4 : i # j => order[i] # order[j] }

\* The checks run in the given order on the graph g, each on the graph as
\* the checks before it left it: the graph each check is handed, by rule.
GraphsHanded(order, g) ==
    LET after[n \in 0..4] ==
            IF n = 0 THEN g
            ELSE GraphAfterCheck(order[n], rules[order[n]], after[n - 1])
    IN  [k \in 1..4 |-> after[(CHOOSE n \in 1..4 : order[n] = k) - 1]]

\* What each check ends with on the graph it is handed, by rule.
RunOn(handed) == [k \in 1..4 |-> RuleCheck(k, handed[k])]

\* The lists of the checks merged in the order of the rules.
MergedInRuleOrder(checked) ==
    checked[1].violations \o checked[2].violations
        \o checked[3].violations \o checked[4].violations

\* C25: the checks are independent: run in any order, each on the graph as
\* the checks before it left it, every check gives what it gives in the
\* sequential run; so the lists merged in rule order are the violation list
\* of the sequential run, with its total weight and rating, and some check
\* raises exactly when the sequential run raises.
C25_AnyOrderSameResult ==
    /\ pc = "returned" =>
          \A handed \in { GraphsHanded(order, graph) : order \in CheckOrders } :
              /\ \A k \in 1..4 : RunOn(handed)[k].exc = None
              /\ result.violations = MergedInRuleOrder(RunOn(handed))
              /\ result = ScheduleAnalysisResult(MergedInRuleOrder(RunOn(handed)),
                                                 general_config)
    /\ pc = "raised" =>
          \A handed \in { GraphsHanded(order, graph) : order \in CheckOrders } :
              \E k \in 1..4 : RunOn(handed)[k].exc # None

\* analyze_schedule has returned violations of three of the rules on
\* performances that are not listed in start order, with a total weight that
\* is not a whole number.
C25_Witness ==
    /\ pc = "returned"
    /\ Cardinality({ result.violations[i].rule_name :
                        i \in DOMAIN result.violations }) >= 3
    /\ \E i \in DOMAIN graph.competitors :
          /\ DistinctStarts(graph.competitors[i].performances)
          /\ graph.competitors[i].performances
                # ByStart(graph.competitors[i].performances)
    /\ result.total_weight.dev # 0

(***************************************************************************)
(* The judging rule on a graph of class ScheduleGraph.                     *)
(***************************************************************************)
\* The graph is an object of class ScheduleGraph, which has no get_juries.
IsScheduleGraph(g) == ~g.has_get_juries

\* C26 (as specified): with the judging rule enabled, analyze_schedule on a
\* ScheduleGraph whose times are all well formed completes and returns a
\* result: no exception leaves it.
C26_JudgingOnScheduleGraphReturns ==
    (IsScheduleGraph(graph) /\ rules[3].enabled /\ ~HasMalformedTime(graph)) =>
        pc # "raised"

=============================================================================
